---- MODULE Spec2Model ----
(***************************************************************************)
(* Verification model of the portfolio scanner backend.                    *)
(*                                                                         *)
(*   Part I   Data Access Layer   backend/app/providers/yf.py              *)
(*            (_throttle, _TTLCache, _retrying, YFClient)                  *)
(*   Part II  Universe resolution backend/app/scanner.py and main.py       *)
(*   Part III Scoring engine      backend/app/scanner.py (Scanner.screen)  *)
(*                                                                         *)
(* Time is a discrete clock.  One clock unit of Part I is BASE_SLEEP /     *)
(* 2^MAX_RETRIES seconds, so that every back-off delay BASE_SLEEP * 2^k    *)
(* and BASE_SLEEP * 1.5^k (k <= MAX_RETRIES) is a whole number of units.   *)
(* The code only ever uses differences time.time() - stamp and sleeps of a *)
(* given length, so the state keeps those differences (ages, capped just   *)
(* above the threshold they are compared with) and the remaining sleep of  *)
(* each thread; Tick lets one clock unit pass.                             *)
(***************************************************************************)
EXTENDS Integers, Sequences, FiniteSets, TLC

VARIABLES
    last_age,    \* time.time() - _last_ts of yf.py, capped at MIN_DELAY
    lockHolder,  \* yf.py _lock: the thread inside "with _lock", or NoThread
    cache,       \* _price_cache / _info_cache / _fx_cache: kind -> key -> entry
    th,          \* per caller thread: position inside _retrying and its locals
    budget,      \* fetches each caller thread may still start
    shapes,      \* the call shapes <<kind, key>> the callers of this run ask for
    maxRetries,  \* _MAX_RETRIES as configured for this run (YF_MAX_RETRIES)
    stampGap,    \* observer: time between the last two writes of _last_ts
    sinceCall,   \* observer: time since the last outbound call started
    callGap,     \* observer: time between the starts of the last two outbound calls
    univFiles,   \* scanner.py: CACHE_DIR/universes/<key>.txt, path -> file
    jsonFiles,   \* main.py: CACHE_DIR/universe_<name>.json, name -> file
    bundled,     \* scanner.py: app/universes/<name>.txt, name -> rows (<<>>: no file)
    universeDir, \* main.py: UNIVERSE_DIR, [isdir, files: name -> rows]
    callsLeft,   \* resolver calls still to be made in this run, per resolver
    lastRes,     \* observer: the last resolver call and what it returned
    prevRes,     \* observer: per name, the previous resolve_universe call
    signals,     \* scanner.py: self.cfg.signals of the Scanner
    scrIn,       \* what the providers hand back for the ticker being screened
    scrBatch,    \* the arguments of a screen call on a list, and the providers' answers
    scrOut,      \* observer: the outcome of the screen call
    qFiles,      \* scanner.py: scan_queue.jsonl and scan_results.jsonl
    qStep,       \* the next_step call in progress: position and locals
    qObs,        \* observer: what the caller of the scan queue has done and seen
                 \* (signalled: the tickers that left the queue with a scored record)
    pxIn,        \* scanner.py: the ticker, its last close, cfg.base_currency, the fx answer
    pxOut,       \* observer: the "px" of the record screen builds for the ticker
    load,        \* scanner.py: what providers/yf.py exports, and what the loader made of it
    scan,        \* main.py: the arguments of a GET /api/scan request and its answer
    prepObs,     \* observer: the last two prepare_queue calls that resolved universes
    bgFiles,     \* main.py: universe_scan_list, scan_state (i) and signals_cache
    bgLoop,      \* the background loop thread: position and locals
    bgReq,       \* the thread serving a refresh or reset request: position
    bgObs,       \* observer: iterations, requests, resets begun and completed
    boot         \* main.py: the server process, its bg_pid_<pid> marker files and
                 \* the position of its bg-scan thread before the loop

dalVars == <<last_age, lockHolder, cache, th, budget, shapes, maxRetries, stampGap, sinceCall, callGap>>

\* the variables of the other parts
univVars == <<univFiles, jsonFiles, bundled, universeDir, callsLeft, lastRes, prevRes>>

scrVars == <<signals, scrIn, scrBatch, scrOut, pxIn, pxOut, scan, load>>

queueVars == <<qFiles, qStep, qObs, prepObs>>

bgVars == <<bgFiles, bgLoop, bgReq, bgObs>>

nonDal == <<univVars, scrVars, queueVars, bgVars, boot>>

nonUniv == <<dalVars, scrVars, queueVars, bgVars, boot>>

nonScr == <<dalVars, univVars, queueVars, bgVars, boot>>

nonQueue == <<dalVars, univVars, scrVars, bgVars, boot>>

nonBg == <<dalVars, univVars, scrVars, queueVars, boot>>

vars == <<dalVars, nonDal>>

(***************************************************************************)
(* Part I.  Data Access Layer                                              *)
(***************************************************************************)

\* Largest retry setting explored (the scenario of the specification uses 2).
MAX_RETRIES == 2
\* Fetches the first caller thread may start, one after the other.
MaxFetches == 2

Max(a, b) == IF a >= b THEN a ELSE b
Min(a, b) == IF a <= b THEN a ELSE b

RECURSIVE Pow(_, _)
Pow(b, e) == IF e = 0 THEN 1 ELSE b * Pow(b, e - 1)

RECURSIVE SumSeq(_)
SumSeq(s) == IF s = <<>> THEN 0 ELSE Head(s) + SumSeq(Tail(s))

\* _BASE_SLEEP in clock units (see the header).
BASE_SLEEP == Pow(2, MAX_RETRIES)
\* _MIN_DELAY = 1 / requests_per_second in clock units.
MIN_DELAY == 2

Threads == {"t1", "t2"}
NoThread == "none"
Kinds == {"price", "info", "fx"}
\* Call-shape fingerprints: one per instrument and kind ("h:..", "i:..", "fx:..").
Keys == {"AAA", "BBB"}

\* Payloads.  None is Python's None, EmptyDict the {} that info can build,
\* Data(kind, key) what the provider returns for that call shape.
Payload(tag, kind, key) == [tag |-> tag, kind |-> kind, key |-> key]
None == Payload("None", "-", "-")
EmptyDict == Payload("empty", "-", "-")
Data(kind, key) == Payload("data", kind, key)
Pending == Payload("pending", "-", "-")
Raised == Payload("raised", "-", "-")

NoEntry == [age |-> -1, payload |-> None]
NoAge == -1

\* _TTL_PRICE, _TTL_INFO, _TTL_FX in clock units; each cache has its own.
TTL_PRICE == 3
TTL_INFO == 4
TTL_FX == 2
Ttl(kind) == CASE kind = "price" -> TTL_PRICE
               [] kind = "info" -> TTL_INFO
               [] kind = "fx" -> TTL_FX

\* What the wrapped provider call can return without raising:
\* history and fx normalise an empty frame to None, info always builds a dict.
CallResults(kind, key) ==
    IF kind = "info" THEN {EmptyDict, Data(kind, key)} ELSE {None, Data(kind, key)}
CallErrors == {"ratelimit", "other"}

\* mutant of CacheGet: the age of the entry is never checked
CacheGetNoExpiry(map, key, ttl) ==
    LET v == map[key] IN
    IF v = NoEntry THEN [payload |-> None, map |-> map, age |-> NoAge, seen |-> "miss"]
    ELSE [payload |-> v.payload, map |-> map, age |-> v.age, seen |-> "fresh"]

\* _TTLCache.get under the cache's lock: the payload returned and the map
\* afterwards (age and seen record what the read found).
CacheGet(map, key, ttl) ==
    LET v == map[key] IN
    IF v = NoEntry THEN [payload |-> None, map |-> map, age |-> NoAge, seen |-> "miss"]
    ELSE IF v.age > ttl
         THEN [payload |-> None, map |-> [map EXCEPT ![key] = NoEntry],
               age |-> v.age, seen |-> "stale"]
         ELSE [payload |-> v.payload, map |-> map, age |-> v.age, seen |-> "fresh"]

\* _TTLCache.set: the entry is stamped with the current time
CacheSet(map, key, payload) == [map EXCEPT ![key] = [age |-> 0, payload |-> payload]]

\* mutant of ThrottleWait: the wait is one clock unit short
ThrottleWaitShort(sinceLast) == Max(0, MIN_DELAY - 1 - sinceLast)

\* wait computed by _throttle from now - _last_ts
ThrottleWait(sinceLast) == Max(0, MIN_DELAY - sinceLast)

\* mutant of Handles: only the rate-limit error is caught
HandlesRateLimitOnly(err) == err = "ratelimit"

\* the except clauses of _retrying: which failures of an attempt are caught
Handles(err) == err \in {"ratelimit", "other"}

\* mutant of Backoff: every failure backs off by doubling
BackoffAlwaysDoubling(err, attempt) == BASE_SLEEP * Pow(2, attempt)

\* the sleep after failed attempt number `attempt` (from 0)
Backoff(err, attempt) ==
    IF err = "ratelimit" THEN BASE_SLEEP * Pow(2, attempt)
    ELSE (BASE_SLEEP * Pow(3, attempt)) \div Pow(2, attempt)

\* YFClient.info ends "_retrying(...) or {}"; history and fx return _retrying's value
FetchReturn(kind, out) == IF kind = "info" /\ out \in {None, EmptyDict} THEN EmptyDict ELSE out

\* "cached is not None" at the top of _retrying
IsHit(payload) == payload # None

\* mutant of HasAttempt: one attempt more than range(_MAX_RETRIES + 1)
HasAttemptOneMore(attempt, retries) == attempt <= retries + 1

\* range(_MAX_RETRIES + 1): is there an attempt numbered `attempt`?
HasAttempt(attempt, retries) == attempt <= retries

IdleThread == [pc |-> "idle", kind |-> "price", key |-> "AAA", attempt |-> 0, wait |-> 0,
               result |-> Pending, nGate |-> 0, nNet |-> 0, errs |-> <<>>, sleeps |-> <<>>,
               seen |-> "miss", seenPayload |-> None, seenAge |-> NoAge, ok |-> FALSE]

\* a caller enters YFClient.history / info / fx
Fetch(t, kind, key) ==
    /\ th[t].pc \in {"idle", "done"}
    /\ budget[t] > 0
    /\ <<kind, key>> \in shapes
    /\ budget' = [budget EXCEPT ![t] = @ - 1]
    /\ th' = [th EXCEPT ![t] = [IdleThread EXCEPT !.pc = "get", !.kind = kind, !.key = key]]
    /\ UNCHANGED <<last_age, lockHolder, cache, shapes, maxRetries, stampGap, sinceCall, callGap, nonDal>>

\* _retrying: cache.get(key), return on a hit, otherwise enter the attempt loop
RetryingCacheFirst(t) ==
    /\ th[t].pc = "get"
    /\ LET k == th[t].kind
           g == CacheGet(cache[k], th[t].key, Ttl(k))
           hit == IsHit(g.payload)
           go == HasAttempt(0, maxRetries)
       IN /\ cache' = [cache EXCEPT ![k] = g.map]
          /\ th' = [th EXCEPT ![t] =
                 [@ EXCEPT !.seen = g.seen, !.seenPayload = g.payload, !.seenAge = g.age,
                           !.pc = IF ~hit /\ go THEN "lock" ELSE "done",
                           !.result = IF hit THEN FetchReturn(k, g.payload)
                                      ELSE IF go THEN Pending
                                      ELSE FetchReturn(k, None)]]
    /\ UNCHANGED <<last_age, lockHolder, budget, shapes, maxRetries, stampGap, sinceCall, callGap, nonDal>>

\* _throttle: take _lock, read the clock, compute the wait and sleep holding the lock
ThrottleEnter(t) ==
    /\ th[t].pc = "lock"
    /\ lockHolder = NoThread
    /\ lockHolder' = t
    /\ th' = [th EXCEPT ![t] = [@ EXCEPT !.pc = "gate", !.wait = ThrottleWait(last_age)]]
    /\ UNCHANGED <<last_age, cache, budget, shapes, maxRetries, stampGap, sinceCall, callGap, nonDal>>

\* _throttle: the sleep is over, _last_ts = time.time(), the lock is released
ThrottleStamp(t) ==
    /\ th[t].pc = "gate"
    /\ th[t].wait = 0
    /\ stampGap' = last_age
    /\ last_age' = 0
    /\ lockHolder' = NoThread
    /\ th' = [th EXCEPT ![t] = [@ EXCEPT !.pc = "call", !.nGate = @ + 1]]
    /\ UNCHANGED <<cache, budget, shapes, maxRetries, sinceCall, callGap, nonDal>>

\* _retrying: out = call() starts the outbound request
CallStart(t) ==
    /\ th[t].pc = "call"
    /\ callGap' = sinceCall
    /\ sinceCall' = 0
    /\ th' = [th EXCEPT ![t] = [@ EXCEPT !.pc = "net", !.nNet = @ + 1]]
    /\ UNCHANGED <<last_age, lockHolder, cache, budget, shapes, maxRetries, stampGap, nonDal>>

\* _retrying: call() returned out; cache.set(key, out); return out
CallReturn(t, out) ==
    /\ th[t].pc = "net"
    /\ out \in CallResults(th[t].kind, th[t].key)
    /\ cache' = [cache EXCEPT ![th[t].kind] = CacheSet(@, th[t].key, out)]
    /\ th' = [th EXCEPT ![t] = [@ EXCEPT !.pc = "done", !.ok = TRUE,
                                         !.result = FetchReturn(th[t].kind, out)]]
    /\ UNCHANGED <<last_age, lockHolder, budget, shapes, maxRetries, stampGap, sinceCall, callGap, nonDal>>

\* _retrying: call() raised; the except clause sleeps the back-off delay
CallRaise(t, err) ==
    /\ th[t].pc = "net"
    /\ IF Handles(err)
       THEN th' = [th EXCEPT ![t] =
                [@ EXCEPT !.pc = "backoff",
                          !.errs = Append(@, err),
                          !.sleeps = Append(@, Backoff(err, th[t].attempt)),
                          !.wait = Backoff(err, th[t].attempt)]]
       ELSE th' = [th EXCEPT ![t] = [@ EXCEPT !.pc = "done", !.result = Raised,
                                              !.errs = Append(@, err)]]
    /\ UNCHANGED <<last_age, lockHolder, cache, budget, shapes, maxRetries, stampGap, sinceCall, callGap, nonDal>>

\* _retrying: the back-off sleep is over; next attempt, or give up and return None
BackoffWake(t) ==
    /\ th[t].pc = "backoff"
    /\ th[t].wait = 0
    /\ th' = [th EXCEPT ![t] =
           IF HasAttempt(th[t].attempt + 1, maxRetries)
           THEN [@ EXCEPT !.pc = "lock", !.attempt = @ + 1]
           ELSE [@ EXCEPT !.pc = "done", !.attempt = @ + 1,
                          !.result = FetchReturn(th[t].kind, None)]]
    /\ UNCHANGED <<last_age, lockHolder, cache, budget, shapes, maxRetries, stampGap, sinceCall, callGap, nonDal>>

\* one clock unit passes: every age grows, every sleeper has one unit less to sleep
AgeEntry(e, ttl) == IF e = NoEntry THEN e ELSE [e EXCEPT !.age = Min(@ + 1, ttl + 1)]

Tick ==
    /\ last_age' = Min(last_age + 1, MIN_DELAY)
    /\ sinceCall' = Min(sinceCall + 1, MIN_DELAY)
    /\ cache' = [k \in Kinds |-> [key \in Keys |-> AgeEntry(cache[k][key], Ttl(k))]]
    /\ th' = [t \in Threads |-> [th[t] EXCEPT !.wait = Max(0, @ - 1)]]
    /\ UNCHANGED <<lockHolder, budget, shapes, maxRetries, stampGap, callGap, nonDal>>

DalInit(budgets, retries, asked) ==
    /\ last_age = MIN_DELAY
    /\ lockHolder = NoThread
    /\ cache = [k \in Kinds |-> [key \in Keys |-> NoEntry]]
    /\ th = [t \in Threads |-> IdleThread]
    /\ maxRetries \in retries
    /\ budget = budgets
    /\ shapes = asked
    /\ stampGap = MIN_DELAY
    /\ sinceCall = MIN_DELAY
    /\ callGap = MIN_DELAY

DalNext ==
    \/ \E t \in Threads, k \in Kinds, key \in Keys : Fetch(t, k, key)
    \/ \E t \in Threads : RetryingCacheFirst(t)
    \/ \E t \in Threads : ThrottleEnter(t)
    \/ \E t \in Threads : ThrottleStamp(t)
    \/ \E t \in Threads : CallStart(t)
    \/ \E t \in Threads : \E out \in CallResults(th[t].kind, th[t].key) : CallReturn(t, out)
    \/ \E t \in Threads, err \in CallErrors : CallRaise(t, err)
    \/ \E t \in Threads : BackoffWake(t)
    \/ Tick

(***************************************************************************)
(* Part II.  Universe resolution                                           *)
(*                                                                         *)
(* Scanner.resolve_universe (scanner.py) and _auto_universe_fetch          *)
(* (main.py) each keep their own on-disk cache.  One clock unit is 12 h.   *)
(* The cache files are a reliable store: the I/O errors both functions     *)
(* swallow are not modelled.  Each call is one step (no claim is about     *)
(* concurrent resolutions).                                                *)
(***************************************************************************)

\* Scanner.universe_ttl_hours (24 h) in clock units
UNIVERSE_TTL_HOURS == 2
\* main.UNIVERSE_TTL_MIN (1440 min) in clock units
UNIVERSE_TTL_MIN == 2
\* Resolver calls made in one run.
MaxCalls == 3

NoFile == [age |-> -1, rows |-> <<>>]

\* str.upper() on the symbols and currency codes used here
Upper(s) == CASE s = "msft" -> "MSFT"
              [] s = "cba.ax" -> "CBA.AX"
              [] s = "usd" -> "USD"
              [] OTHER -> s

\* Python's string order on the symbols used here (upper case sorts first)
Rank(s) == CASE s = "AAPL" -> 1
             [] s = "BHP.AX" -> 2
             [] s = "CBA.AX" -> 3
             [] s = "MSFT" -> 4
             [] s = "cba.ax" -> 5
             [] s = "msft" -> 6

IsUpper(s) == s \in {"AAPL", "BHP.AX", "CBA.AX", "MSFT"}

SeqToSet(q) == {q[i] : i \in DOMAIN q}

\* sorted(set(...))
RECURSIVE SortSet(_)
SortSet(S) ==
    IF S = {} THEN <<>>
    ELSE LET m == CHOOSE x \in S : \A y \in S : Rank(x) <= Rank(y)
         IN <<m>> \o SortSet(S \ {m})

StrictlyAscending(q) == \A i, j \in DOMAIN q : i < j => Rank(q[i]) < Rank(q[j])

\* main.SEED_SP500 and main.SEED_ASX200 (their first two symbols)
SEED_SP500 == <<"AAPL", "MSFT">>
SEED_ASX200 == <<"CBA.AX", "BHP.AX">>

\* what a live source can do: raise, or return a (possibly empty) list
LiveOutcome(err, syms) == [err |-> err, syms |-> syms]
NoLive == LiveOutcome(FALSE, <<>>)

\* Scanner._fetch_wikipedia_sp500: upper-cased symbols in table order
WikipediaSp500 == {LiveOutcome(TRUE, <<>>), LiveOutcome(FALSE, <<>>),
                   LiveOutcome(FALSE, <<"MSFT", "AAPL", "MSFT">>), LiveOutcome(FALSE, <<"AAPL">>)}
\* Scanner._fetch_wikipedia_asx200: sorted(set(...)) of <code>.AX
WikipediaAsx200 == {LiveOutcome(TRUE, <<>>), LiveOutcome(FALSE, <<>>),
                    LiveOutcome(FALSE, <<"BHP.AX", "CBA.AX">>)}

\* universe names handed to resolve_universe
Names == {"auto:sp500", "AUTO:SP500 ", "auto:asx200", "file:tech", "file_tech"}
KnownNames == {"auto:sp500", "AUTO:SP500 ", "auto:asx200"}

\* key = name.strip().lower()
KeyOf(name) == IF name = "AUTO:SP500 " THEN "auto:sp500" ELSE name

\* _univ_cache_path: key.replace(":", "_")
PathOf(key) == CASE key = "auto:sp500" -> "auto_sp500"
                 [] key = "auto:asx200" -> "auto_asx200"
                 [] key = "file:tech" -> "file_tech"
                 [] key = "file_tech" -> "file_tech"
Paths == {"auto_sp500", "auto_asx200", "file_tech"}

\* key.replace("auto:", "")
StripAuto(key) == CASE key = "auto:sp500" -> "sp500"
                    [] key = "auto:asx200" -> "asx200"
                    [] OTHER -> key

\* mutant of AfterColon: the prefix is not cut off the file name
AfterColonWhole(key) == "file_tech"

\* key.startswith("file:") and key.split(":", 1)[1]
IsFileKey(key) == key = "file:tech"
AfterColon(key) == IF key = "file:tech" THEN "tech" ELSE key

BundledNames == {"sp500", "asx200", "tech", "file_tech"}

LiveFor(key) == CASE key = "auto:sp500" -> WikipediaSp500
                  [] key = "auto:asx200" -> WikipediaAsx200
                  [] OTHER -> {NoLive}

\* mutant of ReadCachedUniverse: the cache is never served
ReadCachedUniverseNever(files, path, max_age_hours) == <<>>

\* mutant of ReadCachedUniverse: the file's age is not looked at
ReadCachedUniverseAnyAge(files, path, max_age_hours) ==
    IF files[path] # NoFile THEN files[path].rows ELSE <<>>

\* Scanner._read_cached_universe: the rows, or <<>> for None
ReadCachedUniverse(files, path, max_age_hours) ==
    LET f == files[path] IN
    IF f # NoFile /\ f.age <= max_age_hours
    THEN SelectSeq(f.rows, LAMBDA ln : ln # "")
    ELSE <<>>

\* mutant of WriteCachedUniverse: nothing is written back
WriteCachedUniverseSkipped(files, path, syms) == files

\* Scanner._write_cached_universe
WriteCachedUniverse(files, path, syms) == [files EXCEPT ![path] = [age |-> 0, rows |-> syms]]

\* Scanner._read_bundled_universe: the rows, or <<>> for None
ReadBundledUniverse(name) == bundled[name]

\* mutant of Normalise: the symbols are not upper-cased
NormaliseNoUpper(syms) == SortSet(SeqToSet(syms) \ {""})

\* resolve_universe: strip, upper-case, drop empties, sorted(set(...))
Normalise(syms) == SortSet({Upper(syms[i]) : i \in DOMAIN syms} \ {""})

\* Scanner.resolve_universe(name), `live` being what the live source does if asked
ResolveUniverse(files, name, live) ==
    LET key == KeyOf(name)
        cached == ReadCachedUniverse(files, PathOf(key), UNIVERSE_TTL_HOURS)
        isAuto == key \in {"auto:sp500", "auto:asx200"}
        syms == IF isAuto
                THEN (IF live.err THEN ReadBundledUniverse(StripAuto(key)) ELSE live.syms)
                ELSE IF IsFileKey(key) THEN ReadBundledUniverse(AfterColon(key))
                ELSE ReadBundledUniverse(StripAuto(key))
        normed == Normalise(syms)
    IN IF cached # <<>>
       THEN [result |-> cached, source |-> "cache", live |-> FALSE, files |-> files]
       ELSE [result |-> normed, source |-> "fresh", live |-> isAuto,
             files |-> IF normed # <<>> THEN WriteCachedUniverse(files, PathOf(key), normed)
                       ELSE files]

NoCall == [called |-> FALSE, result |-> <<>>, since |-> 0, age1 |-> 0]

\* a caller (prepare_queue, /api/scan) runs Scanner.resolve_universe(name)
ResolveUniverseCall(name, live) ==
    /\ callsLeft.scanner > 0
    /\ callsLeft' = [callsLeft EXCEPT !.scanner = @ - 1]
    /\ LET r == ResolveUniverse(univFiles, name, live)
           f == univFiles[PathOf(KeyOf(name))]
       IN /\ univFiles' = r.files
          /\ lastRes' = [fn |-> "resolve_universe", name |-> name, result |-> r.result,
                         source |-> r.source, live |-> r.live, entryAge |-> f.age,
                         prev |-> prevRes[name]]
          /\ prevRes' = [prevRes EXCEPT ![name] =
                 [called |-> TRUE, result |-> r.result, since |-> 0,
                  age1 |-> IF r.source = "cache" THEN f.age ELSE 0]]
    /\ UNCHANGED <<jsonFiles, bundled, universeDir, nonUniv>>

\* universe names handed to _auto_universe_fetch (main.py lower-cases them)
AutoNames == {"auto:sp500", "auto:asx200", "auto:nasdaq", "tech"}
\* name.startswith("auto:") and name.split("auto:", 1)[1]
StartsWithAuto(name) == name \in {"auto:sp500", "auto:asx200", "auto:nasdaq"}
BaseOf(name) == CASE name = "auto:sp500" -> "sp500"
                  [] name = "auto:asx200" -> "asx200"
                  [] name = "auto:nasdaq" -> "nasdaq"
                  [] OTHER -> name

\* _fetch_sp500_from_wikipedia / _fetch_asx200_from_wikipedia / _fetch_csv_symbols
PrimaryFor(base) == CASE base = "sp500" -> {LiveOutcome(TRUE, <<>>), LiveOutcome(FALSE, <<>>),
                                            LiveOutcome(FALSE, <<"MSFT", "AAPL">>)}
                      [] base = "asx200" -> {LiveOutcome(TRUE, <<>>), LiveOutcome(FALSE, <<>>),
                                             LiveOutcome(FALSE, <<"CBA.AX", "BHP.AX">>)}
                      [] OTHER -> {NoLive}
CsvFor(base) == CASE base = "sp500" -> {LiveOutcome(TRUE, <<>>), LiveOutcome(FALSE, <<>>),
                                        LiveOutcome(FALSE, <<"AAPL">>)}
                  [] base = "asx200" -> {LiveOutcome(TRUE, <<>>), LiveOutcome(FALSE, <<>>),
                                         LiveOutcome(FALSE, <<"BHP.AX">>)}
                  [] OTHER -> {NoLive}

\* _read_cache_json(path, ttl_min): the data, or <<>> for None
ReadCacheJson(files, name, ttl_min) ==
    LET f == files[name] IN
    IF f = NoFile \/ f.age > ttl_min THEN <<>> ELSE f.rows

\* _write_cache_json
WriteCacheJson(files, name, data) == [files EXCEPT ![name] = [age |-> 0, rows |-> data]]

\* _read_universe_file: upper-cased lines of UNIVERSE_DIR/<name>.txt
ReadUniverseFile(name) == [i \in DOMAIN universeDir.files[name] |-> Upper(universeDir.files[name][i])]

\* SEED_SP500 if base == "sp500" else SEED_ASX200
SeedFor(base) == IF base = "sp500" THEN SEED_SP500 ELSE SEED_ASX200

\* _auto_universe_fetch(name); p, c1, c2: what the primary source and the CSV
\* fallback URLs do if asked
AutoUniverseFetch(files, name, p, c1, c2) ==
    LET base == BaseOf(name)
        cached == ReadCacheJson(files, name, UNIVERSE_TTL_MIN)
        \* the asx200 CSV loop catches each URL's exception itself
        asxCsv == IF ~c1.err /\ c1.syms # <<>> THEN c1.syms
                  ELSE IF ~c2.err THEN c2.syms
                  ELSE IF ~c1.err THEN c1.syms ELSE <<>>
        raised == \/ p.err
                  \/ (base = "sp500" /\ p.syms = <<>> /\ c1.err)
        afterCsv == IF p.syms # <<>> THEN p.syms
                    ELSE IF base = "sp500" THEN c1.syms
                    ELSE IF base = "asx200" THEN asxCsv
                    ELSE <<>>
        afterFile == IF afterCsv = <<>> /\ universeDir.isdir
                     THEN ReadUniverseFile(IF base = "sp500" THEN "sp500" ELSE "asx200")
                     ELSE afterCsv
        tickers == IF raised THEN SeedFor(base)
                   ELSE IF afterFile = <<>> THEN SeedFor(base)
                   ELSE afterFile
        source == IF raised THEN "seed-on-error"
                  ELSE IF p.syms # <<>> THEN "primary"
                  ELSE IF afterCsv # <<>> THEN "csv"
                  ELSE IF afterFile # <<>> THEN "file"
                  ELSE "seed"
        upper(q) == [i \in DOMAIN q |-> Upper(q[i])]
    IN IF ~StartsWithAuto(name)
       THEN [result |-> <<>>, source |-> "none", live |-> FALSE, files |-> files]
       ELSE IF cached # <<>>
       THEN [result |-> upper(cached), source |-> "cache", live |-> FALSE, files |-> files]
       ELSE [result |-> upper(tickers), source |-> source,
             live |-> base \in {"sp500", "asx200"},
             files |-> IF tickers # <<>> THEN WriteCacheJson(files, name, tickers) ELSE files]

\* a caller (_load_universe_tickers, /api/universe/refresh) runs _auto_universe_fetch(name)
AutoUniverseFetchCall(name, p, c1, c2) ==
    /\ callsLeft.main > 0
    /\ callsLeft' = [callsLeft EXCEPT !.main = @ - 1]
    /\ LET r == AutoUniverseFetch(jsonFiles, name, p, c1, c2)
       IN /\ jsonFiles' = r.files
          /\ lastRes' = [fn |-> "_auto_universe_fetch", name |-> name, result |-> r.result,
                         source |-> r.source, live |-> r.live,
                         entryAge |-> IF StartsWithAuto(name) THEN jsonFiles[name].age ELSE -1,
                         prev |-> NoCall]
    /\ UNCHANGED <<univFiles, bundled, universeDir, prevRes, nonUniv>>

AgeFile(f, ttl) == IF f = NoFile THEN f ELSE [f EXCEPT !.age = Min(@ + 1, ttl + 1)]

\* one clock unit (12 h) passes
UnivTick ==
    /\ univFiles' = [q \in Paths |-> AgeFile(univFiles[q], UNIVERSE_TTL_HOURS)]
    /\ jsonFiles' = [n \in DOMAIN jsonFiles |-> AgeFile(jsonFiles[n], UNIVERSE_TTL_MIN)]
    /\ prevRes' = [n \in Names |->
           IF prevRes[n].called
           THEN [prevRes[n] EXCEPT !.since = Min(@ + 1, UNIVERSE_TTL_HOURS + 1)]
           ELSE prevRes[n]]
    /\ UNCHANGED <<bundled, universeDir, callsLeft, lastRes, nonUniv>>

NoRes == [fn |-> "none", name |-> "none", result |-> <<>>, source |-> "none", live |-> FALSE,
          entryAge |-> -1, prev |-> NoCall]

\* the files shipped with the program: none at all, or a tech list and an sp500 list
BundledChoices ==
    {[n \in BundledNames |-> <<>>],
     [n \in BundledNames |-> CASE n = "tech" -> <<"msft", "AAPL", "msft">>
                               [] n = "sp500" -> <<"msft">>
                               [] OTHER -> <<>>]}
UniverseDirChoices ==
    {[isdir |-> FALSE, files |-> [n \in {"sp500", "asx200"} |-> <<>>]],
     [isdir |-> TRUE, files |-> [n \in {"sp500", "asx200"} |-> <<>>]],
     [isdir |-> TRUE, files |-> [n \in {"sp500", "asx200"} |->
                                   IF n = "sp500" THEN <<"msft">> ELSE <<"cba.ax">>]]}

\* a run exercises one of the two resolvers (they share no state)
UnivInit ==
    /\ univFiles = [q \in Paths |-> NoFile]
    /\ jsonFiles = [n \in {"auto:sp500", "auto:asx200", "auto:nasdaq"} |-> NoFile]
    /\ \/ /\ callsLeft = [scanner |-> MaxCalls, main |-> 0]
          /\ bundled \in BundledChoices
          /\ universeDir = [isdir |-> FALSE, files |-> [n \in {"sp500", "asx200"} |-> <<>>]]
       \/ /\ callsLeft = [scanner |-> 0, main |-> MaxCalls]
          /\ bundled = [n \in BundledNames |-> <<>>]
          /\ universeDir \in UniverseDirChoices
    /\ lastRes = NoRes
    /\ prevRes = [n \in Names |-> NoCall]

\* the other parts at rest
UnivIdle ==
    /\ univFiles = [q \in Paths |-> NoFile]
    /\ jsonFiles = [n \in {"auto:sp500", "auto:asx200", "auto:nasdaq"} |-> NoFile]
    /\ bundled = [n \in BundledNames |-> <<>>]
    /\ universeDir = [isdir |-> FALSE, files |-> [n \in {"sp500", "asx200"} |-> <<>>]]
    /\ callsLeft = [scanner |-> 0, main |-> 0]
    /\ lastRes = NoRes
    /\ prevRes = [n \in Names |-> NoCall]

DalIdle == DalInit([t \in Threads |-> 0], {0}, {})

UnivNext ==
    \/ \E name \in Names : \E live \in LiveFor(KeyOf(name)) : ResolveUniverseCall(name, live)
    \/ \E name \in AutoNames : \E p \in PrimaryFor(BaseOf(name)) :
          \E c1, c2 \in CsvFor(BaseOf(name)) : AutoUniverseFetchCall(name, p, c1, c2)
    \/ UnivTick

(***************************************************************************)
(* Part III.  Scoring engine (Scanner.screen)                              *)
(*                                                                         *)
(* screen is a function of the configuration and of what the providers     *)
(* hand back for a ticker.  A run draws both at Init and applies screen    *)
(* once to a one-ticker list.  Quantities are integers: ratios as they     *)
(* are, fractions in percent, sentiment in tenths, scores and weights in   *)
(* thousandths.  The series of closes is described by what screen reads    *)
(* from it: its length, the last close against the slow average, the       *)
(* 12-1 month return, the RSI and the distance from the 52 week high.      *)
(***************************************************************************)

\* Scanner.max_universe (SCAN_MAX_TICKERS)
MAX_UNIVERSE == 120
\* Longest list of tickers screen is called with.
MaxTickers == 3

\* a value a provider may leave out (None)
Nil == [has |-> FALSE, v |-> 0]
Val(x) == [has |-> TRUE, v |-> x]

\* Python truthiness of an optional number: None and 0 are falsy
Truthy(f) == f.has /\ f.v # 0

\* a or b on optional numbers
OrElse(a, b) == IF Truthy(a) THEN a ELSE b

\* Cfg.signals with the defaults of config.py
DefaultSignals ==
    [technical_trend |-> [enabled |-> TRUE, require_above_sma200 |-> TRUE, sma_slow |-> 200],
     momentum        |-> [enabled |-> TRUE, min_12m_mom |-> 8],
     mean_reversion  |-> [enabled |-> TRUE, rsi_buy_below |-> 30],
     value           |-> [enabled |-> TRUE, max_pe |-> Val(28), max_pb |-> Val(5),
                          peg_max |-> Val(2), ev_ebitda_max |-> Val(18)],
     quality         |-> [enabled |-> TRUE, min_roe |-> 12, min_gross_margin |-> 25,
                          min_fcf_margin |-> 5, min_rev_cagr_3y |-> 5,
                          max_net_debt_ebitda |-> 3],
     dividend        |-> [enabled |-> TRUE, min_yield |-> 3, max_payout |-> Val(85)],
     news_sentiment  |-> [enabled |-> TRUE, min_avg_sentiment |-> 1],
     breakout52w     |-> [enabled |-> TRUE, near_high_pct |-> 5]]

\* every signal family switched off
SignalsOff ==
    [f \in DOMAIN DefaultSignals |-> [DefaultSignals[f] EXCEPT !.enabled = FALSE]]

\* the trend filter not required, the optional limits unset
SignalsLoose ==
    [DefaultSignals EXCEPT !.technical_trend.require_above_sma200 = FALSE,
                           !.value.max_pe = Nil,
                           !.dividend.max_payout = Nil]

\* only the trend and the momentum family switched on, min_12m_mom = 0.05
SignalsTrendMomentum ==
    [SignalsOff EXCEPT !.technical_trend.enabled = TRUE,
                       !.momentum.enabled = TRUE,
                       !.momentum.min_12m_mom = 5]

SignalsChoices == {DefaultSignals, SignalsOff, SignalsLoose, SignalsTrendMomentum}

\* what self.fund.facts(tk) hands back
NoFacts ==
    [pe_ttm |-> Nil, pe_fwd |-> Nil, pb |-> Nil, peg |-> Nil, ev_ebitda |-> Nil,
     roe |-> Nil, gross_margin |-> Nil, fcf_margin |-> Nil, rev_cagr_3y |-> Nil,
     net_debt_ebitda |-> Nil, div_yield_ttm |-> Nil, payout_ratio |-> Nil]

GoodFacts ==
    [pe_ttm |-> Val(15), pe_fwd |-> Nil, pb |-> Val(2), peg |-> Val(1), ev_ebitda |-> Val(10),
     roe |-> Val(20), gross_margin |-> Val(40), fcf_margin |-> Val(10), rev_cagr_3y |-> Val(10),
     net_debt_ebitda |-> Val(1), div_yield_ttm |-> Val(4), payout_ratio |-> Val(50)]

PoorFacts ==
    [pe_ttm |-> Val(40), pe_fwd |-> Val(15), pb |-> Val(9), peg |-> Val(3), ev_ebitda |-> Val(30),
     roe |-> Val(5), gross_margin |-> Val(10), fcf_margin |-> Val(1), rev_cagr_3y |-> Val(1),
     net_debt_ebitda |-> Val(5), div_yield_ttm |-> Val(1), payout_ratio |-> Val(95)]

ZeroFacts ==
    [pe_ttm |-> Val(0), pe_fwd |-> Val(20), pb |-> Val(0), peg |-> Val(0), ev_ebitda |-> Val(0),
     roe |-> Val(0), gross_margin |-> Val(0), fcf_margin |-> Val(0), rev_cagr_3y |-> Val(0),
     net_debt_ebitda |-> Val(0), div_yield_ttm |-> Val(0), payout_ratio |-> Val(50)]

PayoutOnlyFacts == [NoFacts EXCEPT !.payout_ratio = Val(50)]

\* a profitable, richly valued dividend payer
PriceyQualityFacts ==
    [pe_ttm |-> Val(40), pe_fwd |-> Val(35), pb |-> Val(9), peg |-> Val(3), ev_ebitda |-> Val(30),
     roe |-> Val(20), gross_margin |-> Val(40), fcf_margin |-> Val(10), rev_cagr_3y |-> Val(10),
     net_debt_ebitda |-> Val(1), div_yield_ttm |-> Val(4), payout_ratio |-> Val(95)]

FactsChoices ==
    {[raises |-> TRUE, facts |-> NoFacts]} \cup
    {[raises |-> FALSE, facts |-> f] :
        f \in {NoFacts, GoodFacts, PoorFacts, ZeroFacts, PayoutOnlyFacts, PriceyQualityFacts}}

\* what a provider call for one optional number does: raise, None or a value
Raises == [raises |-> TRUE, val |-> Nil]
Gives(x) == [raises |-> FALSE, val |-> x]

\* self.yf.history(tk): the two raise outcomes, None, and the frames
HistoryOutcomes == {"ratelimit", "error", "none", "empty", "noclose", "allnan", "data"}

\* the inputs of one frame with closes
SeriesChoices ==
    [len : {100, 255, 300}, above : BOOLEAN, ret12 : {2, 20}, rsi : {20, 50}, dist : {2, 30}]

NoSeries == [len |-> 0, above |-> FALSE, ret12 |-> 0, rsi |-> 0, dist |-> 0]

\* the factors of screen whose own computation may raise inside its try block
\* (the fundamentals fetch, dividends_ttm and the sentiment call raise through
\* fund, divttm and news)
Factors == {"trend", "momentum", "rsi", "value", "quality", "breakout", "events"}

\* no factor raises, one does, or all do
FailChoices == {{}} \cup {{f} : f \in Factors} \cup {Factors}

\* everything the providers hand back for one ticker
ScreenInputs ==
    {[hist |-> h, series |-> NoSeries, fund |-> [raises |-> FALSE, facts |-> GoodFacts],
      divttm |-> Raises, news |-> Gives(Val(3)), fails |-> {}] :
        h \in HistoryOutcomes \ {"data"}}
    \cup
    [hist : {"data"}, series : SeriesChoices, fund : FactsChoices,
     divttm : {Raises, Gives(Nil), Gives(Val(5))},
     news : {Raises, Gives(Nil), Gives(Val(0 - 5)), Gives(Val(3))},
     fails : FailChoices]

\* score is a Python float.  A double x that lies within rounding error of a
\* multiple of 0.1 is kept exactly as the pair [t, e] with
\*     x * 5 * 2^56 = t * 2^55 + e
\* (t the tenths, e the representation error in units of 2^-56 / 5).
FZero == [t |-> 0, e |-> 0]

\* the doubles of the literals 0.1, 0.2, 0.3, 0.4 and 0.6 (w in thousandths)
FWeight(w) ==
    CASE w = 100 -> [t |-> 1, e |-> 2]
      [] w = 200 -> [t |-> 2, e |-> 4]
      [] w = 300 -> [t |-> 3, e |-> 0 - 4]
      [] w = 400 -> [t |-> 4, e |-> 8]
      [] w = 600 -> [t |-> 6, e |-> 0 - 8]

\* x >= T / 10 for a bound T / 10 that is itself a double (0.5, 1.0, 1.5, 2.0, 4.0)
FGe(x, T) == x.t > T \/ (x.t = T /\ x.e >= 0)

\* the spacing of the doubles around x, in units of 2^-56 / 5
Ulp(x) ==
    IF FGe(x, 40) THEN 320
    ELSE IF FGe(x, 20) THEN 160
    ELSE IF FGe(x, 10) THEN 80
    ELSE IF FGe(x, 5) THEN 40
    ELSE IF x.t >= 3 THEN 20
    ELSE 10

\* round to nearest double, ties to even (2^55 = 128 modulo 640)
FRound(x) ==
    LET q == Ulp(x)
        m == (128 * x.t + x.e) % (2 * q)
        r == m % q
    IN  IF 2 * r < q \/ (2 * r = q /\ m < q)
        THEN [t |-> x.t, e |-> x.e - r]
        ELSE [t |-> x.t, e |-> x.e + q - r]

\* x + y on doubles
FAdd(x, y) ==
    IF x = FZero THEN y
    ELSE IF y = FZero THEN x
    ELSE FRound([t |-> x.t + y.t, e |-> x.e + y.e])

\* round(score, 3), in thousandths
Round3(x) == 100 * x.t

\* reasons.append(r); score += w
Add(st, r, w) == [reasons |-> Append(st.reasons, r), score |-> FAdd(st.score, FWeight(w))]

\* Scanner._mom_12_1: NaN (Nil) below 260 closes
Mom12_1(series) == IF series.len < 260 THEN Nil ELSE Val(series.ret12)

\* mutant of SmaSlow: an average exists for every length of history
SmaSlowAnyLength(series, n) == Val(0)

\* Scanner._sma(close, sma_slow): NaN (Nil) when the window is not filled
SmaSlow(series, n) == IF series.len < n THEN Nil ELSE Val(0)

\* if cond: reasons.append(r); score += w
AddIf(cond, st, r, w) == IF cond THEN Add(st, r, w) ELSE st

\* reasons += rs; score += sc
Merge(st, part) ==
    [reasons |-> st.reasons \o part.reasons, score |-> FAdd(st.score, part.score)]

\* mutant of Try: the block that raised has still added its reason and weight
TryLeaks(f, fails, st, done) == done

\* try: ... except Exception: pass -- a block that raises leaves reasons and score alone
Try(f, fails, st, done) == IF f \in fails THEN st ELSE done

\* the technical trend block of screen
TrendStep(sig, series, fails, st) ==
    LET tcfg == sig.technical_trend
        sma  == SmaSlow(series, tcfg.sma_slow) IN
    Try("trend", fails, st,
        AddIf(tcfg.enabled /\ ((~tcfg.require_above_sma200) \/ (sma.has /\ series.above)),
              st, "trend", 400))

\* the momentum block of screen
MomentumStep(sig, series, fails, st) ==
    LET m12 == Mom12_1(series) IN
    Try("momentum", fails, st,
        AddIf(sig.momentum.enabled /\ m12.has /\ m12.v >= sig.momentum.min_12m_mom,
              st, "momentum", 600))

\* the mean reversion block of screen
MeanReversionStep(sig, series, fails, st) ==
    Try("rsi", fails, st,
        AddIf(sig.mean_reversion.enabled /\ series.rsi <= sig.mean_reversion.rsi_buy_below,
              st, "rsi", 300))

\* Scanner._valuation_ok: the reasons and the score it returns
ValuationOk(sig, facts) ==
    LET v  == sig.value
        pe == OrElse(facts.pe_ttm, facts.pe_fwd)
    IN AddIf(Truthy(facts.ev_ebitda) /\ Truthy(v.ev_ebitda_max)
                /\ facts.ev_ebitda.v <= v.ev_ebitda_max.v,
         AddIf(Truthy(facts.peg) /\ Truthy(v.peg_max) /\ facts.peg.v <= v.peg_max.v,
           AddIf(Truthy(facts.pb) /\ Truthy(v.max_pb) /\ facts.pb.v <= v.max_pb.v,
             AddIf(Truthy(pe) /\ Truthy(v.max_pe) /\ pe.v <= v.max_pe.v,
                   [reasons |-> <<>>, score |-> FZero], "pe", 300),
             "pb", 200),
           "peg", 200),
         "ev_ebitda", 200)

\* Scanner._quality_ok: the reasons and the score it returns
QualityOk(sig, facts) ==
    LET q == sig.quality
    IN AddIf(facts.net_debt_ebitda.has /\ facts.net_debt_ebitda.v <= q.max_net_debt_ebitda,
         AddIf(Truthy(facts.rev_cagr_3y) /\ facts.rev_cagr_3y.v >= q.min_rev_cagr_3y,
           AddIf(Truthy(facts.fcf_margin) /\ facts.fcf_margin.v >= q.min_fcf_margin,
             AddIf(Truthy(facts.gross_margin) /\ facts.gross_margin.v >= q.min_gross_margin,
               AddIf(Truthy(facts.roe) /\ facts.roe.v >= q.min_roe,
                     [reasons |-> <<>>, score |-> FZero], "roe", 300),
               "gm", 200),
             "fcf", 200),
           "cagr", 200),
         "netdebt", 200)

\* the value block of screen
ValueStep(sig, facts, fails, st) ==
    IF sig.value.enabled
    THEN Try("value", fails, st, Merge(st, ValuationOk(sig, facts))) ELSE st

\* the quality block of screen
QualityStep(sig, facts, fails, st) ==
    IF sig.quality.enabled
    THEN Try("quality", fails, st, Merge(st, QualityOk(sig, facts))) ELSE st

\* the value and quality blocks of screen
FundamentalsStep(sig, facts, fails, st) ==
    QualityStep(sig, facts, fails, ValueStep(sig, facts, fails, st))

\* the dividend block of screen
DividendStep(sig, facts, divttm, st) ==
    LET d  == sig.dividend
        dy == IF Truthy(facts.div_yield_ttm) THEN facts.div_yield_ttm
              ELSE IF divttm.raises THEN Nil ELSE divttm.val
    IN IF d.enabled
       THEN AddIf(Truthy(dy) /\ Truthy(d.max_payout) /\ Truthy(facts.payout_ratio)
                     /\ facts.payout_ratio.v <= d.max_payout.v,
                  AddIf(Truthy(dy) /\ dy.v >= d.min_yield, st, "div_yield", 200),
                  "payout", 100)
       ELSE st

\* the news sentiment block of screen
NewsStep(sig, news, st) ==
    LET s_mean == IF news.raises THEN Nil ELSE news.val IN
    AddIf(sig.news_sentiment.enabled /\ s_mean.has
             /\ s_mean.v >= sig.news_sentiment.min_avg_sentiment,
          st, "news", 200)

\* the 52 week breakout block of screen
BreakoutStep(sig, series, fails, st) ==
    Try("breakout", fails, st,
        AddIf(sig.breakout52w.enabled /\ series.dist <= sig.breakout52w.near_high_pct,
              st, "breakout", 300))

\* side = "BUY" if score >= 1.5 else ("HOLD" if score >= 0.5 else "PASS")
SideOf(score) == IF FGe(score, 15) THEN "BUY" ELSE IF FGe(score, 5) THEN "HOLD" ELSE "PASS"

\* out.append({... "side": side, "score": round(score, 3), "reasons": reasons ...})
RecordOf(st) == [reasons |-> st.reasons, score |-> Round3(st.score), side |-> SideOf(st.score)]

\* fundamentals of the ticker: {} when the provider raises
FactsOf(fund) == IF fund.raises THEN NoFacts ELSE fund.facts

\* the body of screen's loop for a ticker whose frame has closes
ScoreTicker(sig, in) ==
    RecordOf(
      BreakoutStep(sig, in.series, in.fails,
        NewsStep(sig, in.news,
          DividendStep(sig, FactsOf(in.fund), in.divttm,
            FundamentalsStep(sig, FactsOf(in.fund), in.fails,
              MeanReversionStep(sig, in.series, in.fails,
                MomentumStep(sig, in.series, in.fails,
                  TrendStep(sig, in.series, in.fails,
                            [reasons |-> <<>>, score |-> FZero]))))))))

\* screen([tk]): the records returned, or the exception that leaves screen
ScreenOne(sig, in) ==
    IF in.hist \in {"ratelimit", "error"}
    THEN [raised |-> FALSE, records |-> <<>>]
    ELSE IF in.hist \in {"none", "empty", "noclose"}
    THEN [raised |-> FALSE, records |-> <<>>]
    ELSE IF in.hist = "allnan"
    THEN [raised |-> TRUE, records |-> <<>>]
    ELSE [raised |-> FALSE, records |-> <<ScoreTicker(sig, in)>>]

NoOut == [called |-> FALSE, raised |-> FALSE, records |-> <<>>]

\* the symbols screen is called with
Tickers == {"AAPL", "BHP.AX", "MSFT"}

TickerLists == UNION {[1..n -> Tickers] : n \in 0..MaxTickers}

\* provider answers for the instruments of a list: no frame, a rate limit, a
\* frame of NaN closes, a weak and a strong instrument, and the strong one
\* with its trend computation raising
InNone ==
    [hist |-> "none", series |-> NoSeries, fund |-> [raises |-> FALSE, facts |-> NoFacts],
     divttm |-> Raises, news |-> Raises, fails |-> {}]
InRateLimited == [InNone EXCEPT !.hist = "ratelimit"]
InAllNan == [InNone EXCEPT !.hist = "allnan"]
InWeak ==
    [InNone EXCEPT !.hist = "data",
                   !.series = [len |-> 100, above |-> FALSE, ret12 |-> 2, rsi |-> 50, dist |-> 30]]
InStrong ==
    [hist |-> "data",
     series |-> [len |-> 300, above |-> TRUE, ret12 |-> 20, rsi |-> 50, dist |-> 2],
     fund |-> [raises |-> FALSE, facts |-> GoodFacts],
     divttm |-> Raises, news |-> Gives(Val(3)), fails |-> {}]
InStrongTrendRaises == [InStrong EXCEPT !.fails = {"trend"}]

BatchChoices == {InNone, InRateLimited, InAllNan, InWeak, InStrong, InStrongTrendRaises}

\* no call on a list in this run
NoBatch == [tickers |-> <<>>, max_tickers |-> 0, inputs |-> [tk \in Tickers |-> InNone]]

\* the records of one ticker, with its symbol
Tagged(tk, records) ==
    IF records = <<>> THEN <<>> ELSE <<[ticker |-> tk] @@ records[1]>>

\* the loop of screen over the chosen tickers: the records appended to out
\* (the exception of a ticker leaves screen: see ScreenList)
RECURSIVE Collect(_, _, _)
Collect(sig, chosen, inputs) ==
    IF chosen = <<>> THEN <<>>
    ELSE Tagged(Head(chosen), ScreenOne(sig, inputs[Head(chosen)]).records)
         \o Collect(sig, Tail(chosen), inputs)

\* mutant of InsertDesc: r goes in front of the records with its own score
InsertDescUnstable(r, q) ==
    LET k == Cardinality({i \in DOMAIN q : q[i].score > r.score}) IN
    SubSeq(q, 1, k) \o <<r>> \o SubSeq(q, k + 1, Len(q))

\* place r behind the records of a descending list whose score is not below r's
InsertDesc(r, q) ==
    LET k == Cardinality({i \in DOMAIN q : q[i].score >= r.score}) IN
    SubSeq(q, 1, k) \o <<r>> \o SubSeq(q, k + 1, Len(q))

\* sorted(out, key=lambda x: x["score"], reverse=True): stable
RECURSIVE SortedByScore(_)
SortedByScore(q) ==
    IF q = <<>> THEN <<>>
    ELSE InsertDesc(q[Len(q)], SortedByScore(SubSeq(q, 1, Len(q) - 1)))

\* the tickers screen works on: sorted(set(tickers)) cut to the cap
\* (max_tickers = 0 stands for None; chunk is None)
Chosen(tickers, max_tickers) ==
    LET uniq == SortSet(SeqToSet(tickers))
        cap  == IF max_tickers > 0 THEN max_tickers ELSE MAX_UNIVERSE
    IN SubSeq(uniq, 1, Min(cap, Len(uniq)))

\* screen(tickers, max_tickers): the records returned, or the exception
ScreenList(sig, tickers, max_tickers, inputs) ==
    LET chosen == Chosen(tickers, max_tickers) IN
    IF tickers = <<>> THEN [raised |-> FALSE, records |-> <<>>]
    ELSE IF \E i \in DOMAIN chosen : ScreenOne(sig, inputs[chosen[i]]).raised
    THEN [raised |-> TRUE, records |-> <<>>]
    ELSE [raised |-> FALSE, records |-> SortedByScore(Collect(sig, chosen, inputs))]

\* the prices, tickers, base currencies and fx answers of a pricing run
PxTickers == {"BHP.AX", "MSFT"}

EndsWithAX(ticker) == ticker = "BHP.AX"

BaseCurrencies == {"AUD", "USD", "usd", "EUR"}

\* the rate used when the fx lookup gives none, in hundredths (0.65)
FX_FALLBACK == 65

\* YFClient.fx: raises, or returns None (Nil), 0.0 or a rate in hundredths
FxChoices == [raises : {TRUE}, rate : {Nil}]
               \cup [raises : {FALSE}, rate : {Nil, Val(0), Val(50), Val(65), Val(80)}]

PxInputs == [ticker : PxTickers, px : {1300, 2600, 5200},
             base_currency : BaseCurrencies, fx : FxChoices]

NoPx == [ticker |-> "", px |-> 0, base_currency |-> "", fx |-> [raises |-> FALSE, rate |-> Nil]]

NoPxOut == [called |-> FALSE, px |-> 0]

PxIdle == pxIn = NoPx /\ pxOut = NoPxOut

\* Scanner._resolve_ccy(ticker)
ResolveCcy(ticker) == IF EndsWithAX(ticker) THEN "AUD" ELSE "USD"

\* self.yf.fx("AUDUSD=X") or 0.65, and 0.65 when the lookup raises
FxOrFallback(fx) == IF fx.raises \/ ~Truthy(fx.rate) THEN FX_FALLBACK ELSE fx.rate.v

\* Scanner._to_base(px, from_ccy): px in cents, the rate in hundredths
ToBase(px, from_ccy, base_currency, fx) ==
    LET base == Upper(base_currency) IN
    IF base = from_ccy THEN px
    ELSE IF {base, from_ccy} = {"AUD", "USD"}
         THEN IF base = "USD" THEN px ELSE (px * 100) \div FxOrFallback(fx)
         ELSE px

\* screen([tk]) up to the record's "px": px_base = _to_base(px, _resolve_ccy(tk))
ScreenPx ==
    /\ pxIn # NoPx
    /\ ~pxOut.called
    /\ pxOut' = [called |-> TRUE,
                 px |-> ToBase(pxIn.px, ResolveCcy(pxIn.ticker), pxIn.base_currency, pxIn.fx)]
    /\ UNCHANGED <<signals, scrIn, scrBatch, scrOut, pxIn, scan, load, nonScr>>

\* the parts of a chunk string around its colons: an integer literal, the
\* empty string, or any other text
IntPart(n) == [kind |-> "int", v |-> n]
EmptyPart == [kind |-> "empty", v |-> 0]
TextPart == [kind |-> "text", v |-> 0]

\* chunk=None or "" ; "0:2" "1:3" "2:1" "-1:2" "1:x" "abc" "5" ":2" "1:"
NoChunk == [given |-> FALSE, parts |-> <<>>]
Chunk(parts) == [given |-> TRUE, parts |-> parts]
ChunkChoices ==
    {NoChunk,
     Chunk(<<IntPart(0), IntPart(2)>>), Chunk(<<IntPart(1), IntPart(3)>>),
     Chunk(<<IntPart(2), IntPart(1)>>), Chunk(<<IntPart(-1), IntPart(2)>>),
     Chunk(<<IntPart(1), TextPart>>), Chunk(<<TextPart>>), Chunk(<<IntPart(5)>>),
     Chunk(<<EmptyPart, IntPart(2)>>), Chunk(<<IntPart(1), EmptyPart>>)}

\* the symbols of watchlist, holdings and universes at a scan request
ScanBases == {{}, {"AAPL", "MSFT"}, {"AAPL", "BHP.AX", "MSFT"}}

NoWindow == [has |-> FALSE, start |-> 0, end |-> 0]

\* main.py _parse_chunk(s): the window (start, end), or None
ParseChunk(chunk) ==
    IF ~chunk.given THEN NoWindow
    ELSE IF Len(chunk.parts) # 2 THEN NoWindow
    ELSE IF chunk.parts[1].kind # "int" \/ chunk.parts[2].kind # "int" THEN NoWindow
    ELSE IF chunk.parts[1].v < 0 \/ chunk.parts[2].v <= chunk.parts[1].v THEN NoWindow
    ELSE [has |-> TRUE, start |-> chunk.parts[1].v, end |-> chunk.parts[2].v]

\* GET /api/scan from universe = sorted(base) on: the kind of answer
\* ("items": the windowed answer, "list": the plain list of signals) and the
\* symbols handed to SC.screen
RunScan ==
    /\ ~scan.called
    /\ LET sorted   == SortSet(scan.base)
           universe == IF scan.max > 0 /\ Len(sorted) > scan.max
                       THEN SubSeq(sorted, 1, scan.max) ELSE sorted
           window   == ParseChunk(scan.chunk)
           start    == Min(window.start, Len(universe))
           end      == Min(window.end, Len(universe))
           windowed == IF end > start THEN SubSeq(universe, start + 1, end) ELSE <<>>
       IN scan' = IF window.has
                  THEN [scan EXCEPT !.called = TRUE, !.kind = "items",
                                    !.screened = Chosen(windowed, 0),
                                    !.slice = <<start, end>>]
                  ELSE [scan EXCEPT !.called = TRUE, !.kind = "list",
                                    !.screened = Chosen(universe, 0)]
    /\ UNCHANGED <<signals, scrIn, scrBatch, scrOut, pxIn, pxOut, load, nonScr>>

\* no scan request in this run
NoScan == [chunk |-> NoChunk, base |-> {}, max |-> 0, called |-> FALSE, kind |-> "",
           screened |-> <<>>, slice |-> <<>>]

ScanIdle == scan = NoScan

\* the names _load_yf_provider_instance looks up, in its order
FactoryNames == <<"get_provider", "make_provider", "provider", "create">>
ClassNames == <<"YFProvider", "YF", "YahooProvider", "Provider", "Client">>
ProviderMethods == {"history", "info", "fx"}

ExportNames == SeqToSet(FactoryNames) \cup SeqToSet(ClassNames) \cup ProviderMethods
                 \cup {"YFClient"}

\* a name of the module: "absent" (no such attribute), "ok" (a callable that
\* returns an object with history, info and fx) or "raises" (a callable that
\* raises when called)
NoExports == [n \in ExportNames |-> "absent"]

\* providers/yf.py as it is: class YFClient; def get_provider(): return YF()
\* with no YF defined, so the call raises NameError; YFProvider = YF raised
\* NameError at import and left no name; no module-level history, info, fx
YfExports == [NoExports EXCEPT !["YFClient"] = "ok", !["get_provider"] = "raises"]

\* the modules of a run: yf.py as it is, and variants of it
ModuleChoices ==
    {[n \in ExportNames |->
         CASE n = "get_provider" -> g
           [] n = "make_provider" -> m
           [] n = "YFProvider" -> c
           [] n = "Client" -> k
           [] n \in fs -> "ok"
           [] n = "YFClient" -> "ok"
           [] OTHER -> "absent"] :
       g \in {"absent", "ok", "raises"}, m \in {"absent", "ok", "raises"},
       c \in {"absent", "ok", "raises"}, k \in {"absent", "ok"},
       fs \in {{}, {"history"}, ProviderMethods}}

\* for name in names: try: return getattr(mod, name)() except: go on -- the
\* first name whose call returns, "" when the loop ends
FirstOk(names, mod) ==
    LET idx == {i \in DOMAIN names : mod[names[i]] = "ok"} IN
    IF idx = {} THEN "" ELSE names[CHOOSE i \in idx : \A j \in idx : i <= j]

NoProvider == [kind |-> "none", name |-> ""]

\* _load_yf_provider_instance(): the provider returned, or ImportError
LoadYfProviderInstance(mod) ==
    IF FirstOk(FactoryNames, mod) # ""
    THEN [kind |-> "factory", name |-> FirstOk(FactoryNames, mod)]
    ELSE IF FirstOk(ClassNames, mod) # ""
    THEN [kind |-> "class", name |-> FirstOk(ClassNames, mod)]
    ELSE IF \A n \in ProviderMethods : mod[n] # "absent"
    THEN [kind |-> "module", name |-> "yf"]
    ELSE [kind |-> "ImportError", name |-> ""]

\* Scanner.__init__: self.yf = _load_yf_provider_instance()
ScannerInit ==
    /\ ~load.called
    /\ load' = [load EXCEPT !.called = TRUE, !.outcome = LoadYfProviderInstance(load.mod)]
    /\ UNCHANGED <<signals, scrIn, scrBatch, scrOut, pxIn, pxOut, scan, nonScr>>

LoadIdle == load = [mod |-> NoExports, called |-> FALSE, outcome |-> NoProvider]

\* one call of screen([tk])
Screen ==
    /\ ~scrOut.called
    /\ scrBatch = NoBatch
    /\ scrOut' = [called |-> TRUE] @@ ScreenOne(signals, scrIn)
    /\ UNCHANGED <<signals, scrIn, scrBatch, pxIn, pxOut, scan, load, nonScr>>

\* one call of screen on a list of tickers
ScreenBatch ==
    /\ ~scrOut.called
    /\ scrBatch # NoBatch
    /\ scrOut' = [called |-> TRUE] @@
                     ScreenList(signals, scrBatch.tickers, scrBatch.max_tickers, scrBatch.inputs)
    /\ UNCHANGED <<signals, scrIn, scrBatch, pxIn, pxOut, scan, load, nonScr>>

\* a run screens one ticker with any provider answers, or a list of tickers
ScrInit ==
    /\ scrOut = NoOut
    /\ PxIdle
    /\ ScanIdle
    /\ LoadIdle
    /\ \/ /\ signals \in SignalsChoices
          /\ scrIn \in ScreenInputs
          /\ scrBatch = NoBatch
       \/ /\ signals = DefaultSignals
          /\ scrIn = InNone
          /\ scrBatch \in [tickers : TickerLists \ {<<>>}, max_tickers : {0, 2},
                           inputs : [Tickers -> BatchChoices]]

\* no screen call is scored in this run
ScoreIdle ==
    /\ signals = SignalsOff
    /\ scrIn = InNone
    /\ scrBatch = NoBatch
    /\ scrOut = NoOut

ScrIdle == ScoreIdle /\ PxIdle /\ ScanIdle /\ LoadIdle

\* a run prices one ticker with any base currency and any fx answer
PxInit ==
    /\ pxIn \in PxInputs
    /\ pxOut = NoPxOut
    /\ ScoreIdle
    /\ ScanIdle
    /\ LoadIdle

PxNext == ScreenPx

\* a run answers one scan request with any universe, cap and chunk
ScanInit ==
    /\ scan \in [chunk : ChunkChoices, base : ScanBases, max : {0, 2},
                  called : {FALSE}, kind : {""}, screened : {<<>>}, slice : {<<>>}]
    /\ ScoreIdle
    /\ PxIdle
    /\ LoadIdle

ScanNext == RunScan

\* a run constructs one Scanner over any module of the providers considered
LoadInit ==
    /\ load \in [mod : ModuleChoices, called : {FALSE}, outcome : {NoProvider}]
    /\ ScoreIdle
    /\ PxIdle
    /\ ScanIdle

LoadNext == ScannerInit

ScrNext == Screen \/ ScreenBatch

(***************************************************************************)
(* Part IV.  Scan queue of the Scanner                                     *)
(*                                                                         *)
(* CACHE_DIR/scan_queue.jsonl holds the pending tickers, the head being    *)
(* the next one; CACHE_DIR/scan_results.jsonl holds the records.  One      *)
(* caller prepares the queue and steps through it; next_step is split at   *)
(* its two file writes, where the process may stop.                        *)
(***************************************************************************)

\* next_step calls made in one run.
MaxSteps == 4
\* prepare_queue calls made in one run.
MaxPrepares == 2

\* what resolve_universe(u) does for one universe of a prepare_queue call
ResolvedChoices ==
    {LiveOutcome(TRUE, <<>>), LiveOutcome(FALSE, <<>>),
     LiveOutcome(FALSE, <<"AAPL", "MSFT">>), LiveOutcome(FALSE, <<"BHP.AX", "MSFT">>)}

\* prepare_queue: all_syms as a set (a universe that raises is skipped)
AllSyms(resolved) ==
    UNION {SeqToSet(resolved[i].syms) : i \in {j \in DOMAIN resolved : ~resolved[j].err}}

\* a prepare_queue that keeps the whole union
PrepareListUncapped(resolved, max_tickers) == SortSet(AllSyms(resolved))

\* prepare_queue: base = sorted(set(all_syms)), cut to the cap
PrepareList(resolved, max_tickers) ==
    LET base == SortSet(AllSyms(resolved))
        cap  == IF max_tickers > 0 THEN max_tickers ELSE MAX_UNIVERSE
    IN IF Len(base) > cap THEN SubSeq(base, 1, cap) ELSE base

\* queue_status
QueueStatus(files) == [remaining |-> Len(files.queue), processed |-> Len(files.results)]

\* results_all
ResultsAll(files) == files.results

\* a pop from the tail of the queue
PopLast(qrows) == [ticker |-> qrows[Len(qrows)], rest |-> SubSeq(qrows, 1, Len(qrows) - 1)]

\* job = qrows.pop(0)
Pop(qrows) == [ticker |-> Head(qrows), rest |-> Tail(qrows)]

\* the "last" field next_step returns
LastOf(ticker, res) ==
    IF res # <<>> THEN res[1] ELSE [ticker |-> ticker, error |-> "no-data"]

\* how far the queue had got when prepare_queue was called
Progress(files, obs) ==
    IF obs.prepares = 0 THEN "never prepared"
    ELSE IF files.queue = <<>> THEN "exhausted"
    ELSE IF obs.processed = <<>> THEN "fresh"
    ELSE "partly advanced"

\* no prepare_queue call has resolved universes yet
NoPrep == [calls |-> 0, names |-> <<>>, cap |-> 0, list |-> <<>>, fresh |-> FALSE,
           prevNames |-> <<>>, prevCap |-> 0, prevList |-> <<>>]

NoStep == [pc |-> "idle", ticker |-> "", qrows |-> <<>>, rrows |-> <<>>, res |-> <<>>]

\* prepare_queue(universes, max_tickers)
PrepareQueue(resolved, max_tickers) ==
    /\ qStep.pc = "idle"
    /\ qObs.prepares < MaxPrepares
    /\ LET base == PrepareList(resolved, max_tickers) IN
       /\ qFiles' = [queue |-> base, results |-> <<>>]
       /\ qObs' = [qObs EXCEPT !.prepares = @ + 1,
                               !.prior = Progress(qFiles, qObs),
                               !.priorResults = Len(qFiles.results),
                               !.resolved = resolved,
                               !.max_tickers = max_tickers,
                               !.prepared = base,
                               !.processed = <<>>,
                               !.signalled = {},
                               !.calls = 0,
                               !.attempts = 0,
                               !.last = "prepare",
                               !.lastRec = <<>>]
    /\ UNCHANGED <<qStep, prepObs, nonQueue>>

\* next_step up to its first write: read the queue, pop, screen, read the results
StepBegin(in) ==
    /\ qStep.pc = "idle"
    /\ qObs.steps < MaxSteps
    /\ LET qrows == qFiles.queue IN
       IF qrows = <<>>
       THEN /\ qObs' = [qObs EXCEPT !.steps = @ + 1, !.calls = @ + 1,
                                    !.attempts = @ + 1, !.last = "done"]
            /\ UNCHANGED qStep
       ELSE LET job == Pop(qrows)
                out == ScreenList(DefaultSignals, <<job.ticker>>, 1, [tk \in Tickers |-> in])
            IN IF out.raised
               THEN /\ qObs' = [qObs EXCEPT !.steps = @ + 1, !.attempts = @ + 1,
                                            !.last = "raised"]
                    /\ UNCHANGED qStep
               ELSE /\ qStep' = [pc |-> "write queue", ticker |-> job.ticker,
                                 qrows |-> job.rest,
                                 rrows |-> qFiles.results \o out.records,
                                 res |-> out.records]
                    /\ qObs' = [qObs EXCEPT !.steps = @ + 1, !.attempts = @ + 1,
                                            !.last = "screened"]
    /\ UNCHANGED <<qFiles, prepObs, nonQueue>>

\* self._write_jsonl(qpath, qrows)
StepWriteQueue ==
    /\ qStep.pc = "write queue"
    /\ qFiles' = [qFiles EXCEPT !.queue = qStep.qrows]
    /\ qStep' = [qStep EXCEPT !.pc = "write results"]
    /\ qObs' = [qObs EXCEPT !.signalled = IF qStep.res # <<>>
                                          THEN @ \cup {qStep.ticker} ELSE @]
    /\ UNCHANGED <<prepObs, nonQueue>>

\* self._write_jsonl(rpath, rrows), and the return
StepWriteResults ==
    /\ qStep.pc = "write results"
    /\ qFiles' = [qFiles EXCEPT !.results = qStep.rrows]
    /\ qStep' = NoStep
    /\ qObs' = [qObs EXCEPT !.calls = @ + 1,
                            !.processed = Append(@, qStep.ticker),
                            !.last = "step",
                            !.lastRec = <<LastOf(qStep.ticker, qStep.res)>>]
    /\ UNCHANGED <<prepObs, nonQueue>>

\* the process stops inside next_step and is started again
Crash ==
    /\ qStep.pc # "idle"
    /\ qObs.crashes = 0
    /\ qStep' = NoStep
    /\ qObs' = [qObs EXCEPT !.crashes = 1, !.last = "crash"]
    /\ UNCHANGED <<qFiles, prepObs, nonQueue>>

QueueInit ==
    /\ qFiles = [queue |-> <<>>, results |-> <<>>]
    /\ qStep = NoStep
    /\ qObs = [prepares |-> 0, steps |-> 0, crashes |-> 0, prior |-> "never prepared",
               priorResults |-> 0, attempts |-> 0,
               resolved |-> <<>>, max_tickers |-> 0, prepared |-> <<>>, processed |-> <<>>,
               signalled |-> {}, calls |-> 0, last |-> "none", lastRec |-> <<>>]
    /\ prepObs = NoPrep

QueueIdle ==
    /\ QueueInit
    /\ qObs.prepares = 0

StepInputs == {InStrong, InWeak, InNone, InAllNan}

QueueNext ==
    \/ \E u1, u2 \in ResolvedChoices : \E cap \in {0, 2} : PrepareQueue(<<u1, u2>>, cap)
    \/ \E in \in StepInputs : StepBegin(in)
    \/ StepWriteQueue
    \/ StepWriteResults

QueueCrashNext == QueueNext \/ Crash

(***************************************************************************)
(* Part IV, continued.  prepare_queue over resolve_universe                *)
(*                                                                         *)
(* The universes of a prepare_queue call are resolved one after the other  *)
(* against the on-disk universe cache of Part II, each live source doing   *)
(* whatever it does at that moment; time passes between calls.             *)
(***************************************************************************)

\* the universe lists prepare_queue is called with
NameLists == {<<"auto:sp500">>, <<"auto:sp500", "auto:asx200">>, <<"file:tech", "auto:sp500">>}

\* what the live sources do during one prepare_queue call, per position
LivesFor(names) ==
    {lives \in [1..2 -> WikipediaSp500 \cup WikipediaAsx200 \cup {NoLive}] :
        \A i \in 1..2 : IF i \in DOMAIN names THEN lives[i] \in LiveFor(KeyOf(names[i]))
                        ELSE lives[i] = NoLive}

\* for u in universes: syms = self.resolve_universe(u); all_syms.extend(syms)
RECURSIVE ResolveAll(_, _, _)
RECURSIVE ResolveRest(_, _, _)
ResolveAll(files, names, lives) ==
    IF names = <<>> THEN [files |-> files, resolved |-> <<>>]
    ELSE ResolveRest(ResolveUniverse(files, Head(names), Head(lives)), Tail(names), Tail(lives))

ResolveRest(r, names, lives) ==
    [ResolveAll(r.files, names, lives)
        EXCEPT !.resolved = <<LiveOutcome(FALSE, r.result)>> \o @]

\* every universe of the list has a cache entry within the TTL
AllFresh(files, names) ==
    \A i \in DOMAIN names :
        /\ files[PathOf(KeyOf(names[i]))] # NoFile
        /\ files[PathOf(KeyOf(names[i]))].age <= UNIVERSE_TTL_HOURS

\* the outcome of prepare_queue for what resolve_universe gave
Prepared(all, names, cap) ==
    [files |-> all.files, list |-> PrepareList(all.resolved, cap)]

\* prepare_queue(universes, max_tickers), resolving the universes itself
PrepareQueueCall(names, lives, cap) ==
    /\ qStep.pc = "idle"
    /\ prepObs.calls < MaxPrepares
    /\ univFiles' = Prepared(ResolveAll(univFiles, names, lives), names, cap).files
    /\ qFiles' = [queue |-> Prepared(ResolveAll(univFiles, names, lives), names, cap).list,
                  results |-> <<>>]
    /\ prepObs' = [calls |-> prepObs.calls + 1, names |-> names, cap |-> cap,
                   list |-> Prepared(ResolveAll(univFiles, names, lives), names, cap).list,
                   fresh |-> AllFresh(univFiles, names),
                   prevNames |-> prepObs.names, prevCap |-> prepObs.cap,
                   prevList |-> prepObs.list]
    /\ UNCHANGED <<qStep, qObs, jsonFiles, bundled, universeDir, callsLeft, lastRes, prevRes,
                   dalVars, scrVars, bgVars, boot>>

\* one clock unit (12 h) passes between calls
PrepareTick ==
    /\ prepObs.calls > 0
    /\ univFiles' = [q \in Paths |-> AgeFile(univFiles[q], UNIVERSE_TTL_HOURS)]
    /\ UNCHANGED <<jsonFiles, bundled, universeDir, callsLeft, lastRes, prevRes, nonUniv>>

PrepareInit ==
    /\ QueueInit
    /\ univFiles = [q \in Paths |-> NoFile]
    /\ jsonFiles = [n \in {"auto:sp500", "auto:asx200", "auto:nasdaq"} |-> NoFile]
    /\ bundled \in BundledChoices
    /\ universeDir = [isdir |-> FALSE, files |-> [n \in {"sp500", "asx200"} |-> <<>>]]
    /\ callsLeft = [scanner |-> 0, main |-> 0]
    /\ lastRes = NoRes
    /\ prevRes = [n \in Names |-> NoCall]

PrepareNext ==
    \/ \E names \in NameLists : \E lives \in LivesFor(names) : \E cap \in {0, 2} :
          PrepareQueueCall(names, lives, cap)
    \/ PrepareTick

(***************************************************************************)
(* Part V.  Background scan queue of main.py                               *)
(*                                                                         *)
(* Three cache files: the scan list, the scan state (cursor i) and the     *)
(* signals.  The loop thread steps through the list; refresh and reset     *)
(* requests are served by other threads of the same process.  No lock is   *)
(* taken anywhere, so every action holds one file access, together with    *)
(* the thread-local work before the next one.                              *)
(***************************************************************************)

\* iterations of the background loop in one run.
MaxLoops == 3
\* refresh and reset requests in one run.
MaxRequests == 2

\* watchlist | holdings | default universes, at one call of _prepare_scan_list
BaseChoices == {{"AAPL", "BHP.AX", "MSFT"}, {"AAPL", "MSFT"}, {}}

\* _prepare_scan_list: lst = sorted(base), the seeds when it is empty
ScanList(base) == IF base = {} THEN SEED_SP500 \o SEED_ASX200 ELSE SortSet(base)

NoSignals == [s \in {} |-> 0]

\* what the loop stores for tk (stamp: the resets begun when it was screened)
SignalOf(rows, stamp) ==
    IF rows # <<>>
    THEN [side |-> rows[1].side, score |-> rows[1].score, placeholder |-> FALSE, stamp |-> stamp]
    ELSE [side |-> "HOLD", score |-> 0, placeholder |-> TRUE, stamp |-> stamp]

\* sigs[tk] = rows[0]   /   sigs.setdefault(tk, placeholder)
Stored(sigs, tk, rows, stamp) ==
    IF rows = <<>> /\ tk \in DOMAIN sigs
    THEN sigs
    ELSE [s \in DOMAIN sigs \cup {tk} |-> IF s = tk THEN SignalOf(rows, stamp) ELSE sigs[s]]

NoLoop == [pc |-> "load list", lst |-> <<>>, i |-> 0, tk |-> "", rows |-> <<>>,
           stamp |-> 0, sigs |-> NoSignals]

Seen(ev) == [bgObs EXCEPT !.last = ev]

\* lst = _bg_load_list()
LoadList(counted) ==
    /\ boot.pc = "looping"
    /\ bgLoop.pc = "load list"
    /\ counted => bgObs.loops < MaxLoops
    /\ bgLoop' = IF bgFiles.list = <<>>
                 THEN [bgLoop EXCEPT !.pc = "prepare list"]
                 ELSE [bgLoop EXCEPT !.pc = "load state", !.lst = bgFiles.list]
    /\ bgObs' = [bgObs EXCEPT !.loops = IF counted THEN @ + 1 ELSE @, !.last = "load list"]
    /\ UNCHANGED <<bgFiles, bgReq, nonBg>>

\* an iteration of a run that counts its iterations
LoopLoadList == LoadList(TRUE)

\* an iteration of a run that lets the loop go on for ever
LoopLoadListForever == LoadList(FALSE)

\* the loop's own _prepare_scan_list: _bg_save_list(lst)
LoopPrepareList(base) ==
    /\ bgLoop.pc = "prepare list"
    /\ bgFiles' = [bgFiles EXCEPT !.list = ScanList(base)]
    /\ bgLoop' = [bgLoop EXCEPT !.pc = "prepare state"]
    /\ bgObs' = Seen("prepare list")
    /\ UNCHANGED <<bgReq, nonBg>>

\* the loop's own _prepare_scan_list: st["i"] = 0; _bg_save_state(st); continue
LoopPrepareState ==
    /\ bgLoop.pc = "prepare state"
    /\ bgFiles' = [bgFiles EXCEPT !.i = 0]
    /\ bgLoop' = NoLoop
    /\ bgObs' = Seen("prepare state")
    /\ UNCHANGED <<bgReq, nonBg>>

\* what the providers may hand back for the symbol the loop screens
LoopInputs == {InStrong, InNone, InAllNan}

\* SC.screen([tk]) for every symbol of a scan list and every provider answer
LoopScreen ==
    [tk \in Tickers \cup SeqToSet(SEED_SP500 \o SEED_ASX200) |->
        [in \in LoopInputs |->
            ScreenList(DefaultSignals, <<tk>>, 0, [s \in Tickers \cup {tk} |-> in])]]

\* st = _bg_load_state(); i; tk = lst[i]; rows = SC.screen([tk])
LoopLoadState(in) ==
    /\ bgLoop.pc = "load state"
    /\ LET i   == IF bgFiles.i >= Len(bgLoop.lst) THEN 0 ELSE bgFiles.i
           tk  == bgLoop.lst[i + 1]
           out == LoopScreen[tk][in]
       IN bgLoop' = IF out.raised
                    THEN NoLoop
                    ELSE [bgLoop EXCEPT !.pc = "load signals", !.i = i, !.tk = tk,
                                        !.rows = out.records, !.stamp = bgObs.resetsBegun]
    /\ bgObs' = Seen("load state")
    /\ UNCHANGED <<bgFiles, bgReq, nonBg>>

\* sigs = _bg_load_signals(); sigs[tk] = rows[0] or sigs.setdefault(tk, neutral)
LoopLoadSignals ==
    /\ bgLoop.pc = "load signals"
    /\ bgLoop' = [bgLoop EXCEPT !.pc = "save signals",
                                !.sigs = Stored(bgFiles.signals, bgLoop.tk, bgLoop.rows,
                                                bgLoop.stamp)]
    /\ bgObs' = Seen("load signals")
    /\ UNCHANGED <<bgFiles, bgReq, nonBg>>

\* _bg_save_signals(sigs)
LoopSaveSignals ==
    /\ bgLoop.pc = "save signals"
    /\ bgFiles' = [bgFiles EXCEPT !.signals = bgLoop.sigs]
    /\ bgLoop' = [bgLoop EXCEPT !.pc = "save state"]
    /\ bgObs' = Seen("save signals")
    /\ UNCHANGED <<bgReq, nonBg>>

\* st["i"] = i + 1; _bg_save_state(st)
LoopSaveState ==
    /\ bgLoop.pc = "save state"
    /\ bgFiles' = [bgFiles EXCEPT !.i = bgLoop.i + 1]
    /\ bgLoop' = NoLoop
    /\ bgObs' = Seen("step")
    /\ UNCHANGED <<bgReq, nonBg>>

\* refresh_universe / scan_queue_reset, up to _bg_save_list(lst) of _prepare_scan_list
Request(kind, base) ==
    /\ bgReq.pc = "idle"
    /\ bgObs.requests < MaxRequests
    /\ bgFiles' = [bgFiles EXCEPT !.list = ScanList(base)]
    /\ bgReq' = [pc |-> "prepare state", kind |-> kind]
    /\ bgObs' = [bgObs EXCEPT !.requests = @ + 1,
                              !.resetsBegun = IF kind = "reset" THEN @ + 1 ELSE @,
                              !.last = "request"]
    /\ UNCHANGED <<bgLoop, nonBg>>

\* _prepare_scan_list of the request: st["i"] = 0; _bg_save_state(st)
ReqPrepareState ==
    /\ bgReq.pc = "prepare state"
    /\ bgFiles' = [bgFiles EXCEPT !.i = 0]
    /\ bgReq' = IF bgReq.kind = "reset"
                THEN [bgReq EXCEPT !.pc = "write signals"]
                ELSE [pc |-> "idle", kind |-> ""]
    /\ bgObs' = Seen(IF bgReq.kind = "reset" THEN "prepared" ELSE "refresh")
    /\ UNCHANGED <<bgLoop, nonBg>>

\* scan_queue_reset: _write_cache_json(SIGNALS_PATH, {}), and the return
ReqWriteSignals ==
    /\ bgReq.pc = "write signals"
    /\ bgFiles' = [bgFiles EXCEPT !.signals = NoSignals]
    /\ bgReq' = [pc |-> "idle", kind |-> ""]
    /\ bgObs' = [bgObs EXCEPT !.resetsDone = @ + 1, !.last = "reset"]
    /\ UNCHANGED <<bgLoop, nonBg>>

\* the *.json files of CACHE_DIR that belong to the background scan
CacheFiles == {"universe_scan_list", "scan_state", "signals_cache", "bg_pid"}

\* cache_clear: glob.glob(CACHE_DIR/*.json), before the first os.remove
CacheClearBegin ==
    /\ bgReq.pc = "idle"
    /\ bgObs.requests < MaxRequests
    /\ bgReq' = [pc |-> "clear", kind |-> "clear", todo |-> CacheFiles]
    /\ bgObs' = [bgObs EXCEPT !.requests = @ + 1, !.last = "clear"]
    /\ UNCHANGED <<bgFiles, bgLoop, nonBg>>

\* the scan files after os.remove(p): a missing file reads as its default
Removed(files, f) ==
    CASE f = "universe_scan_list" -> [files EXCEPT !.list = <<>>]
      [] f = "scan_state" -> [files EXCEPT !.i = 0]
      [] f = "signals_cache" -> [files EXCEPT !.signals = NoSignals]
      [] OTHER -> files

\* cache_clear: os.remove(p) for the next path of the glob, in any order
CacheClearRemove(f) ==
    /\ bgReq.pc = "clear"
    /\ f \in bgReq.todo
    /\ bgFiles' = Removed(bgFiles, f)
    /\ boot' = IF f = "bg_pid" THEN [boot EXCEPT !.markers = {}] ELSE boot
    /\ bgReq' = IF bgReq.todo = {f} THEN [pc |-> "idle", kind |-> ""]
                 ELSE [bgReq EXCEPT !.todo = @ \ {f}]
    /\ bgObs' = Seen("removed")
    /\ UNCHANGED <<bgLoop, dalVars, univVars, scrVars, queueVars>>

BgInit ==
    /\ bgFiles = [list |-> <<>>, i |-> 0, signals |-> NoSignals]
    /\ bgLoop = NoLoop
    /\ bgReq = [pc |-> "idle", kind |-> ""]
    /\ bgObs = [loops |-> 0, requests |-> 0, resetsBegun |-> 0, resetsDone |-> 0,
                last |-> "none"]

\* no server process has been started
NoBoot == [pid |-> 0, pc |-> "none", markers |-> {}, starts |-> 0]

BootIdle == boot = NoBoot

\* the bg-scan thread of process 1 has passed the guard and is in its loop
BootRunning == boot = [pid |-> 1, pc |-> "looping", markers |-> {1}, starts |-> 1]

BgIdle ==
    /\ BgInit
    /\ bgObs.loops = 0
    /\ BootIdle

BgNext ==
    \/ LoopLoadList
    \/ \E base \in BaseChoices : LoopPrepareList(base)
    \/ LoopPrepareState
    \/ \E in \in LoopInputs : LoopLoadState(in)
    \/ LoopLoadSignals
    \/ LoopSaveSignals
    \/ LoopSaveState
    \/ \E kind \in {"refresh", "reset"} : \E base \in BaseChoices : Request(kind, base)
    \/ ReqPrepareState
    \/ ReqWriteSignals

\* the loop thread and a thread serving POST /api/cache/clear
ClearNext ==
    \/ LoopLoadList
    \/ \E base \in BaseChoices : LoopPrepareList(base)
    \/ LoopPrepareState
    \/ \E in \in LoopInputs : LoopLoadState(in)
    \/ LoopLoadSignals
    \/ LoopSaveSignals
    \/ LoopSaveState
    \/ CacheClearBegin
    \/ \E f \in CacheFiles : CacheClearRemove(f)

(***************************************************************************)
(* Part VI.  Start of the background loop (main.py, SCAN_BG)               *)
(*                                                                         *)
(* A server process is started, stops and is started again; the cache      *)
(* directory with its bg_pid_<pid> marker files outlives the process, and  *)
(* the operating system may hand out a process id again.                   *)
(***************************************************************************)

\* starts of the server process in one run.
MaxStarts == 3

\* the process ids the operating system hands out
Pids == {1, 2}

\* if SCAN_BG: threading.Thread(target=_bg_scan_loop).start(), in a new process
StartProcess(pid) ==
    /\ boot.pc \in {"none", "exited"}
    /\ boot.starts < MaxStarts
    /\ boot' = [boot EXCEPT !.pid = pid, !.pc = "check guard", !.starts = @ + 1]
    /\ bgObs' = Seen("start")
    /\ UNCHANGED <<bgFiles, bgLoop, bgReq, dalVars, univVars, scrVars, queueVars>>

\* mutant of GuardExists: the marker of the process is never found
GuardExistsNever(markers, pid) == FALSE

\* os.path.exists(pid_guard), pid_guard = bg_pid_<os.getpid()>
GuardExists(markers, pid) == pid \in markers

\* _bg_scan_loop: if os.path.exists(pid_guard): return
LoopCheckGuard ==
    /\ boot.pc = "check guard"
    /\ boot' = [boot EXCEPT !.pc = IF GuardExists(boot.markers, boot.pid)
                                   THEN "returned" ELSE "write guard"]
    /\ bgObs' = Seen("check guard")
    /\ UNCHANGED <<bgFiles, bgLoop, bgReq, dalVars, univVars, scrVars, queueVars>>

\* _write_cache_json(pid_guard, ...); if the list file is missing the loop
\* starts with _prepare_scan_list, else with its first iteration
LoopWriteGuard ==
    /\ boot.pc = "write guard"
    /\ boot' = [boot EXCEPT !.pc = "looping", !.markers = @ \cup {boot.pid}]
    /\ bgLoop' = IF bgFiles.list = <<>> THEN [NoLoop EXCEPT !.pc = "prepare list"] ELSE NoLoop
    /\ bgObs' = Seen("write guard")
    /\ UNCHANGED <<bgFiles, bgReq, dalVars, univVars, scrVars, queueVars>>

\* the process stops: its threads and their locals are gone, the files stay
ExitProcess ==
    /\ boot.pc \in {"check guard", "write guard", "looping", "returned"}
    /\ boot' = [boot EXCEPT !.pc = "exited"]
    /\ bgLoop' = NoLoop
    /\ bgObs' = Seen("exit")
    /\ UNCHANGED <<bgFiles, bgReq, dalVars, univVars, scrVars, queueVars>>

\* the steps of the bg-scan thread, from the guard on, the loop never ending
BgThread ==
    \/ LoopCheckGuard
    \/ LoopWriteGuard
    \/ LoopLoadListForever
    \/ \E base \in BaseChoices : LoopPrepareList(base)
    \/ LoopPrepareState
    \/ \E in \in LoopInputs : LoopLoadState(in)
    \/ LoopLoadSignals
    \/ LoopSaveSignals
    \/ LoopSaveState

BootNext ==
    \/ \E pid \in Pids : StartProcess(pid)
    \/ ExitProcess
    \/ BgThread

(***************************************************************************)
(* Specifications                                                          *)
(***************************************************************************)

InitPrepare == PrepareInit /\ DalIdle /\ ScrIdle /\ BgIdle

SpecPrepare == InitPrepare /\ [][PrepareNext]_vars

InitBoot == BgInit /\ BootIdle /\ DalIdle /\ UnivIdle /\ ScrIdle /\ QueueIdle

SpecBoot == InitBoot /\ [][BootNext]_vars

\* the thread of a live process is scheduled again and again
SpecBootLive == InitBoot /\ [][BootNext]_vars /\ WF_vars(BgThread)

InitBg == BgInit /\ BootRunning /\ DalIdle /\ UnivIdle /\ ScrIdle /\ QueueIdle

SpecBg == InitBg /\ [][BgNext]_vars

SpecClear == InitBg /\ [][ClearNext]_vars

InitUniv == UnivInit /\ DalIdle /\ ScrIdle /\ QueueIdle /\ BgIdle

InitQueue == QueueInit /\ DalIdle /\ UnivIdle /\ ScrIdle /\ BgIdle

SpecQueue == InitQueue /\ [][QueueNext]_vars

SpecQueueCrash == InitQueue /\ [][QueueCrashNext]_vars

SpecUniv == InitUniv /\ [][UnivNext]_vars

InitLoad == LoadInit /\ DalIdle /\ UnivIdle /\ QueueIdle /\ BgIdle

SpecLoad == InitLoad /\ [][LoadNext]_vars

InitScan == ScanInit /\ DalIdle /\ UnivIdle /\ QueueIdle /\ BgIdle

SpecScan == InitScan /\ [][ScanNext]_vars

InitPx == PxInit /\ DalIdle /\ UnivIdle /\ QueueIdle /\ BgIdle

SpecPx == InitPx /\ [][PxNext]_vars

InitScreen == ScrInit /\ DalIdle /\ UnivIdle /\ QueueIdle /\ BgIdle

SpecScreen == InitScreen /\ [][ScrNext]_vars

\* the fetches a caller asks for: two instruments' histories, a profile, a rate
AskedShapes == {<<"price", "AAA">>, <<"price", "BBB">>, <<"info", "AAA">>, <<"fx", "AAA">>}

\* one caller issuing fetches one after the other
Init == /\ DalInit([t \in Threads |-> IF t = "t1" THEN MaxFetches ELSE 0], 0..MAX_RETRIES,
                   AskedShapes)
        /\ UnivIdle /\ ScrIdle /\ QueueIdle /\ BgIdle

Next == DalNext

Spec == Init /\ [][Next]_vars

\* two concurrent callers, one fetch each
\* (the same instrument's price history and an fx rate, with one retry)
InitThrottle == /\ DalInit([t \in Threads |-> 1], {1}, {<<"price", "AAA">>, <<"fx", "AAA">>})
                /\ UnivIdle /\ ScrIdle /\ QueueIdle /\ BgIdle

SpecThrottle == InitThrottle /\ [][Next]_vars

\* one caller, max_retries = 0, one fetch more: enough for an entry of one
\* cache to expire while the other caches hold entries
InitCache == /\ DalInit([t \in Threads |-> IF t = "t1" THEN MaxFetches + 1 ELSE 0], {0},
                        {<<"price", "AAA">>, <<"price", "BBB">>, <<"fx", "AAA">>})
             /\ UnivIdle /\ ScrIdle /\ QueueIdle /\ BgIdle

SpecCache == InitCache /\ [][Next]_vars

(***************************************************************************)
(* Properties of the Data Access Layer                                     *)
(***************************************************************************)

\* C1, as claimed: under every interleaving of concurrent callers, any two
\* outbound provider calls start at least MIN_DELAY (1 / requests_per_second)
\* apart.
C1_CallStartsSpaced == callGap >= MIN_DELAY

\* C1, amended: the gate passages of any two attempts (the times written to
\* _last_ts under _lock) are at least MIN_DELAY apart, and every outbound call
\* has passed the gate first; the calls themselves start after the lock is
\* released.
C1_GateStampsSpaced ==
    /\ stampGap >= MIN_DELAY
    /\ \A t \in Threads : th[t].nGate = th[t].nNet + (IF th[t].pc = "call" THEN 1 ELSE 0)

\* two callers are past the gate at once: one call in flight, the other just stamped
C1_Witness ==
    /\ th["t1"].pc = "net" /\ th["t1"].nGate = 1
    /\ th["t2"].pc = "call" /\ th["t2"].nGate = 1
    /\ last_age = 0

\* C2: a fetch whose key has a non-stale entry in its kind's cache returns that
\* cached payload without passing the throttle gate and without a network call.
C2_FreshEntryServed ==
    \A t \in Threads :
        th[t].seen = "fresh" =>
            /\ th[t].pc = "done"
            /\ th[t].nGate = 0 /\ th[t].nNet = 0
            /\ th[t].result = FetchReturn(th[t].kind, th[t].seenPayload)

\* the absent result of a fetch: {} for info, None for history and fx
Absent(kind) == IF kind = "info" THEN EmptyDict ELSE None

\* C3: a fetch never raises to its caller; it makes at most maxRetries + 1
\* attempts and, every attempt having failed (with whatever error), returns
\* the absent result.
C3_NeverRaises ==
    \A t \in Threads :
        /\ th[t].result # Raised
        /\ Len(th[t].errs) <= maxRetries + 1
        /\ (Len(th[t].errs) = maxRetries + 1 /\ th[t].pc \notin {"net", "backoff"}) =>
               (th[t].pc = "done" /\ th[t].result = Absent(th[t].kind))

\* an info fetch has given up after failures that include a non-rate-limit error
C3_Witness ==
    \E t \in Threads :
        /\ th[t].pc = "done" /\ th[t].kind = "info" /\ th[t].result = EmptyDict
        /\ maxRetries = 2 /\ th[t].errs = <<"other", "ratelimit", "other">>

AllRateLimit(errs) == \A i \in DOMAIN errs : errs[i] = "ratelimit"

\* C4: an uncached fetch whose attempts all fail makes exactly maxRetries + 1
\* network attempts; the k-th failed attempt (k from 0) is followed by a sleep of
\* BASE_SLEEP * 2^k after a rate-limit error and BASE_SLEEP * 1.5^k after any
\* other; for maxRetries = 2 and rate-limit errors only the sleeps add up to at
\* least BASE_SLEEP * (1 + 2); no attempt follows a successful one.
C4_RetryBackoff ==
    \A t \in Threads :
        LET r == th[t] IN
        /\ Len(r.sleeps) = Len(r.errs)
        /\ \A i \in DOMAIN r.sleeps :
               IF r.errs[i] = "ratelimit"
               THEN r.sleeps[i] = BASE_SLEEP * Pow(2, i - 1)
               ELSE r.sleeps[i] * Pow(2, i - 1) = BASE_SLEEP * Pow(3, i - 1)
        /\ (r.pc = "done" /\ ~r.ok /\ ~IsHit(r.seenPayload)) =>
               (r.nNet = maxRetries + 1 /\ Len(r.errs) = maxRetries + 1)
        /\ (r.pc = "done" /\ ~r.ok /\ ~IsHit(r.seenPayload) /\ maxRetries = 2
                /\ AllRateLimit(r.errs)) =>
               SumSeq(r.sleeps) >= BASE_SLEEP * (1 + 2)
        /\ r.ok => (r.pc = "done" /\ r.nNet = Len(r.errs) + 1)

\* max_retries = 2 and three rate-limited attempts: three sleeps, then absent
C4_Witness ==
    \E t \in Threads :
        /\ maxRetries = 2 /\ th[t].pc = "done" /\ th[t].nNet = 3
        /\ th[t].errs = <<"ratelimit", "ratelimit", "ratelimit">>
        /\ th[t].sleeps = <<BASE_SLEEP, 2 * BASE_SLEEP, 4 * BASE_SLEEP>>
        /\ th[t].result = None

\* C5: in each of the three caches get never returns a payload older than that
\* cache's own TTL; a stale entry found by get is removed from the map; and an
\* operation on one cache leaves the other two caches unchanged.
C5_TtlCaches ==
    /\ [](\A t \in Threads :
            /\ th[t].seen = "fresh" => th[t].seenAge <= Ttl(th[t].kind)
            /\ th[t].seen = "stale" => th[t].seenAge > Ttl(th[t].kind))
    /\ [][\A t \in Threads :
            (th[t].pc \in {"get", "net"} /\ th'[t].pc # th[t].pc) =>
                /\ \A k \in Kinds \ {th[t].kind} : cache'[k] = cache[k]
                /\ \A key \in Keys \ {th[t].key} :
                       cache'[th[t].kind][key] = cache[th[t].kind][key]
                /\ (th[t].pc = "get" /\ cache[th[t].kind][th[t].key] # NoEntry
                        /\ cache[th[t].kind][th[t].key].age > Ttl(th[t].kind)) =>
                       cache'[th[t].kind][th[t].key] = NoEntry]_vars

\* a stale fx entry has just been evicted by get while the price cache holds an entry
C5_Witness ==
    \E t \in Threads :
        /\ th[t].seen = "stale" /\ th[t].kind = "fx" /\ th[t].pc = "lock"
        /\ cache["fx"][th[t].key] = NoEntry
        /\ \E key \in Keys : cache["price"][key] # NoEntry /\ cache["price"][key].payload # None

(***************************************************************************)
(* Properties of universe resolution                                       *)
(***************************************************************************)

ResolverTtl(fn) == IF fn = "resolve_universe" THEN UNIVERSE_TTL_HOURS ELSE UNIVERSE_TTL_MIN

\* C6: neither resolver returns the contents of an on-disk cache entry older
\* than the universe TTL; such an entry is treated as absent.
C6_StaleCacheNeverServed ==
    lastRes.source = "cache" =>
        (lastRes.entryAge >= 0 /\ lastRes.entryAge <= ResolverTtl(lastRes.fn))

\* resolve_universe found an expired cache file and resolved afresh
C6_Witness ==
    /\ lastRes.fn = "resolve_universe"
    /\ lastRes.entryAge > UNIVERSE_TTL_HOURS
    /\ lastRes.source = "fresh" /\ lastRes.result # <<>>

\* C7: whatever calls came before, the list resolve_universe returns is
\* strictly ascending (sorted, no duplicates) and holds only upper-cased
\* symbols, whether served from the cache or freshly resolved.
C7_ResolveSortedUpper ==
    lastRes.fn = "resolve_universe" =>
        /\ StrictlyAscending(lastRes.result)
        /\ \A i \in DOMAIN lastRes.result : IsUpper(lastRes.result[i])

\* a list served from the cache that an earlier call wrote from a lower-case,
\* duplicated bundled file
C7_Witness ==
    /\ lastRes.fn = "resolve_universe" /\ lastRes.name = "file:tech"
    /\ lastRes.source = "cache" /\ lastRes.result = <<"AAPL", "MSFT">>
    /\ lastRes.prev.called

\* C8: for a known universe name resolution never returns an empty list.
C8_KnownNeverEmpty ==
    lastRes.name \in KnownNames => lastRes.result # <<>>

\* C9, as claimed: after a resolve_universe call that returned a non-empty
\* list, a second call with the same name within the TTL (of the first call)
\* returns the identical list and performs no live fetch.
C9_IdempotentWithinTtl ==
    (/\ lastRes.fn = "resolve_universe"
     /\ lastRes.prev.called /\ lastRes.prev.result # <<>>
     /\ lastRes.prev.since <= UNIVERSE_TTL_HOURS) =>
        (lastRes.result = lastRes.prev.result /\ ~lastRes.live)

\* C9, amended: the window is that of the cache entry the first call wrote or
\* read, counted from the entry's modification time; a second call with the
\* same name inside it returns the identical list and performs no live fetch.
C9_IdempotentWithinEntryTtl ==
    (/\ lastRes.fn = "resolve_universe"
     /\ lastRes.prev.called /\ lastRes.prev.result # <<>>
     /\ lastRes.prev.age1 + lastRes.prev.since <= UNIVERSE_TTL_HOURS) =>
        (lastRes.result = lastRes.prev.result /\ ~lastRes.live)

\* a live resolution of auto:sp500 followed, inside the TTL, by a call served
\* from the cache it wrote
C9_Witness ==
    /\ lastRes.fn = "resolve_universe" /\ lastRes.name = "auto:sp500"
    /\ lastRes.prev.called /\ lastRes.prev.age1 = 0 /\ lastRes.prev.since = 1
    /\ lastRes.prev.result = <<"AAPL", "MSFT">>
    /\ lastRes.source = "cache" /\ lastRes.result = <<"AAPL", "MSFT">>

(***************************************************************************)
(* Properties of the scoring engine                                        *)
(***************************************************************************)

\* the weight screen adds for a reason
Weight(r) ==
    CASE r = "trend" -> 400 [] r = "momentum" -> 600 [] r = "rsi" -> 300
      [] r = "pe" -> 300 [] r = "pb" -> 200 [] r = "peg" -> 200 [] r = "ev_ebitda" -> 200
      [] r = "roe" -> 300 [] r = "gm" -> 200 [] r = "fcf" -> 200 [] r = "cagr" -> 200
      [] r = "netdebt" -> 200 [] r = "div_yield" -> 200 [] r = "payout" -> 100
      [] r = "news" -> 200 [] r = "breakout" -> 300

WeightSum(reasons) == SumSeq([i \in DOMAIN reasons |-> Weight(reasons[i])])

NoRepeat(reasons) == \A i, j \in DOMAIN reasons : reasons[i] = reasons[j] => i = j

\* C10: for every symbol screen([sym]) returns zero records or exactly one
\* record, and that record's score is the sum of the weights of exactly the
\* reasons in its reasons list.
C10_ScoreIsSumOfReasonWeights ==
    (scrOut.called /\ scrBatch = NoBatch) =>
        /\ ~scrOut.raised
        /\ Len(scrOut.records) <= 1
        /\ \A i \in DOMAIN scrOut.records :
               /\ NoRepeat(scrOut.records[i].reasons)
               /\ scrOut.records[i].score = WeightSum(scrOut.records[i].reasons)

\* the side the classification rule gives a score (in thousandths)
SideRule(score) == IF score >= 1500 THEN "BUY" ELSE IF score >= 500 THEN "HOLD" ELSE "PASS"

\* C11: every record screen produces has side BUY if its score is at least
\* 1.5, HOLD if its score is at least 0.5 and below 1.5, and PASS otherwise.
C11_SideMatchesScore ==
    \A i \in DOMAIN scrOut.records :
        scrOut.records[i].side = SideRule(scrOut.records[i].score)

\* the factor a reason belongs to
Family(r) ==
    CASE r \in {"pe", "pb", "peg", "ev_ebitda"} -> "value"
      [] r \in {"roe", "gm", "fcf", "cagr", "netdebt"} -> "quality"
      [] r \in {"div_yield", "payout"} -> "dividend"
      [] OTHER -> r

\* the providers' answers with every raise replaced by the absent answer
Abstaining(in) ==
    [in EXCEPT !.fails = {},
               !.fund = IF @.raises THEN [raises |-> FALSE, facts |-> NoFacts] ELSE @,
               !.divttm = IF @.raises THEN Gives(Nil) ELSE @,
               !.news = IF @.raises THEN Gives(Nil) ELSE @]

\* the reasons of the factors that did not raise
Keep(reasons, fails) ==
    LET Stays(r) == Family(r) \notin fails IN SelectSeq(reasons, Stays)

\* the reasons an instrument must get: those of the same answers without the
\* raises, less the factors that raised
ReasonsDue(sig, in) == Keep(ScoreTicker(sig, Abstaining(in)).reasons, in.fails)

\* C12: an exception raised while one factor of an instrument is evaluated
\* makes only that factor abstain (no reason, no weight): screen still
\* evaluates the remaining factors of that instrument and all remaining
\* instruments and returns their records instead of raising.  (The frame
\* of NaN closes of C10 raises before any factor is evaluated and is left
\* out of the lists here.)
C12_FactorAbstains ==
    scrOut.called =>
        /\ (scrBatch = NoBatch /\ scrIn.hist = "data") =>
               /\ ~scrOut.raised
               /\ Len(scrOut.records) = 1
               /\ scrOut.records[1].reasons = ReasonsDue(signals, scrIn)
               /\ scrOut.records[1].score = WeightSum(scrOut.records[1].reasons)
        /\ (/\ scrBatch # NoBatch
            /\ \A tk \in SeqToSet(scrBatch.tickers) : scrBatch.inputs[tk].hist # "allnan") =>
               LET chosen == SeqToSet(Chosen(scrBatch.tickers, scrBatch.max_tickers)) IN
               /\ ~scrOut.raised
               /\ {scrOut.records[i].ticker : i \in DOMAIN scrOut.records} =
                      {tk \in chosen : scrBatch.inputs[tk].hist = "data"}
               /\ \A i \in DOMAIN scrOut.records :
                      LET rec == scrOut.records[i] IN
                      /\ rec.reasons = ReasonsDue(signals, scrBatch.inputs[rec.ticker])
                      /\ rec.score = WeightSum(rec.reasons)

\* the trend computation of AAPL raised: AAPL keeps its other reasons and
\* the instruments after it are still screened
C12_Witness ==
    /\ scrOut.called /\ ~scrOut.raised
    /\ scrBatch.tickers = <<"MSFT", "AAPL", "BHP.AX">> /\ scrBatch.max_tickers = 0
    /\ scrBatch.inputs["AAPL"] = InStrongTrendRaises
    /\ scrBatch.inputs["BHP.AX"] = InWeak
    /\ scrBatch.inputs["MSFT"] = InStrong
    /\ Len(scrOut.records) = 3
    /\ \E i \in DOMAIN scrOut.records :
          /\ scrOut.records[i].ticker = "AAPL"
          /\ scrOut.records[i].reasons # <<>>
          /\ \A k \in DOMAIN scrOut.records[i].reasons : scrOut.records[i].reasons[k] # "trend"

\* C13: the list screen returns is ordered by score descending, and records
\* of equal score appear in ascending symbol order.
C13_ScoreDescendingTiesBySymbol ==
    \A i, j \in DOMAIN scrOut.records :
        i < j =>
            \/ scrOut.records[i].score > scrOut.records[j].score
            \/ /\ scrOut.records[i].score = scrOut.records[j].score
               /\ Rank(scrOut.records[i].ticker) < Rank(scrOut.records[j].ticker)

\* the last symbol scores highest and leads; the two others tie and keep
\* their symbol order
C13_Witness ==
    /\ scrOut.called /\ Len(scrOut.records) = 3
    /\ scrBatch.tickers = <<"BHP.AX", "MSFT", "AAPL">>
    /\ scrOut.records[1].ticker = "MSFT"
    /\ scrOut.records[2].ticker = "AAPL" /\ scrOut.records[3].ticker = "BHP.AX"
    /\ scrOut.records[1].score > scrOut.records[2].score
    /\ scrOut.records[2].score = scrOut.records[3].score

\* the rows of the results store that are about ticker s
RowsOf(s) == {i \in DOMAIN ResultsAll(qFiles) : ResultsAll(qFiles)[i].ticker = s}

\* C15: starting from a freshly prepared queue of n symbols, after exactly n
\* consecutive next_step calls the queue is exhausted and results_all() has
\* exactly n entries, one per queued symbol (a placeholder for a symbol
\* without data).  [SpecQueue]
C15_AllStepsLeaveAllResults ==
    (/\ qStep.pc = "idle"
     /\ qObs.prepares > 0
     /\ qObs.attempts = Len(qObs.prepared)
     /\ Len(qObs.processed) = Len(qObs.prepared))
    => /\ QueueStatus(qFiles).remaining = 0
       /\ Len(ResultsAll(qFiles)) = Len(qObs.prepared)
       /\ \A s \in SeqToSet(qObs.prepared) : Cardinality(RowsOf(s)) = 1

\* the cap prepare_queue was called with, 120 when none was given
CapOf(obs) == IF obs.max_tickers > 0 THEN obs.max_tickers ELSE MAX_UNIVERSE

\* C16: whatever the queue state before (never prepared, fresh, partly
\* advanced, exhausted), prepare_queue(universes, cap) leaves a pending list
\* that is the ascending, duplicate-free union of the resolved universes cut to
\* its first cap symbols (120 by default), nothing processed, and an empty
\* results store.  [SpecQueue]
C16_PrepareReseeds ==
    (qObs.last = "prepare")
    => LET union == AllSyms(qObs.resolved)
           kept  == SeqToSet(qFiles.queue)
       IN /\ StrictlyAscending(qFiles.queue)
          /\ kept \subseteq union
          /\ Len(qFiles.queue) = IF Cardinality(union) > CapOf(qObs)
                                 THEN CapOf(qObs) ELSE Cardinality(union)
          /\ \A a \in kept : \A b \in union \ kept : Rank(a) < Rank(b)
          /\ ResultsAll(qFiles) = <<>>
          /\ QueueStatus(qFiles) = [remaining |-> Len(qFiles.queue), processed |-> 0]

\* a prepare over a partly advanced queue with results, where the cap cuts the union
C16_Witness ==
    /\ qObs.last = "prepare"
    /\ qObs.prior = "partly advanced"
    /\ qObs.priorResults > 0
    /\ Cardinality(AllSyms(qObs.resolved)) > CapOf(qObs)
    /\ Len(qFiles.queue) = 2

\* C18: after a step that processes symbol s, the results store holds for s
\* the record that step produced: the scored record, or a placeholder when
\* scoring gave nothing; and s has left the queue.  [SpecQueue]
C18_StepStoresItsRecord ==
    (qObs.last = "step")
    => /\ \E i \in DOMAIN ResultsAll(qFiles) : ResultsAll(qFiles)[i] = qObs.lastRec[1]
       /\ qObs.lastRec[1].ticker \notin SeqToSet(qFiles.queue)

\* C19: when the process stops inside a step and is started again, no symbol
\* is skipped without a result: between steps, every symbol that left the
\* queue with a scored record has that record in the results store.
\* [SpecQueueCrash]
C19_NoSymbolLostByCrash ==
    (qStep.pc = "idle")
    => \A s \in qObs.signalled : s \notin SeqToSet(qFiles.queue) => RowsOf(s) # {}

\* C20: the steps after a prepare process the prepared list in its order: the
\* symbols processed so far are a prefix of the list, the queue file holds the
\* rest, and the step in progress is about the next symbol.  [SpecQueue]
C20_Fifo ==
    LET k == Len(qObs.processed) IN
    /\ k <= Len(qObs.prepared)
    /\ qObs.processed = SubSeq(qObs.prepared, 1, k)
    /\ qStep.pc = "idle" => qFiles.queue = SubSeq(qObs.prepared, k + 1, Len(qObs.prepared))
    /\ qStep.pc # "idle" => qStep.ticker = qObs.prepared[k + 1]

\* three steps have processed a list of three symbols, one call having raised on the way
C20_Witness ==
    /\ Len(qObs.prepared) = 3
    /\ qObs.processed = qObs.prepared
    /\ qObs.attempts = 4
    /\ qObs.last = "step"

\* C14: whenever no request is being served, the persisted cursor i lies
\* within 0 .. length of the persisted scan list, also when the loop thread
\* ran interleaved with refresh and reset requests.  [SpecBg]
C14_CursorWithinList ==
    (bgReq.pc = "idle") => (bgFiles.i >= 0 /\ bgFiles.i <= Len(bgFiles.list))

\* C17: when a reset request completes the cursor is 0 and the signals are
\* empty, and while no reset is being served the signals hold no record that
\* was screened before the last reset began, also when a loop step was in
\* flight during the reset.  [SpecBg]
C17_ResetClears ==
    /\ (bgObs.last = "reset") => (bgFiles.i = 0 /\ bgFiles.signals = NoSignals)
    /\ (bgReq.pc = "idle")
          => \A s \in DOMAIN bgFiles.signals : bgFiles.signals[s].stamp >= bgObs.resetsDone

\* the last prepare_queue call repeated the arguments of the call before it
Repeated == prepObs.calls >= 2 /\ prepObs.prevNames = prepObs.names /\ prepObs.prevCap = prepObs.cap

\* C21 (as stated): two prepare_queue calls in succession with the same
\* universes and cap write the same ordered pending list.  [SpecPrepare]
C21_PrepareIdempotent == Repeated => prepObs.list = prepObs.prevList

\* C21 (amended): two prepare_queue calls in succession with the same
\* universes and cap write the same ordered pending list when, at the second
\* call, the cache entry of every universe is still within the TTL.
\* [SpecPrepare]
C21_PrepareIdempotentWhileFresh ==
    (Repeated /\ prepObs.fresh) => (prepObs.list = prepObs.prevList /\ qFiles.queue = prepObs.list)

\* a second call on two universes, 12 h after the first, repeats a capped list
C21_Witness ==
    /\ Repeated
    /\ prepObs.fresh
    /\ Len(prepObs.names) = 2
    /\ prepObs.cap = 2
    /\ Len(prepObs.list) = 2
    /\ \E q \in Paths : univFiles[q] # NoFile /\ univFiles[q].age = 1

\* C22 (as stated): the back-off sleeps of one external data call add up to
\* at most BASE_SLEEP * 2^max_retries, whatever the failures.  [Spec]
C22_BackoffTotalBound ==
    \A t \in Threads : SumSeq(th[t].sleeps) <= BASE_SLEEP * Pow(2, maxRetries)

\* C22 (amended): each back-off sleep of one external data call is at most
\* BASE_SLEEP * 2^max_retries, and the sleeps of the call add up to at most
\* BASE_SLEEP * (2^(max_retries + 1) - 1), whatever the failures.  [Spec]
C22_BackoffSumBound ==
    \A t \in Threads :
        /\ \A i \in DOMAIN th[t].sleeps : th[t].sleeps[i] <= BASE_SLEEP * Pow(2, maxRetries)
        /\ SumSeq(th[t].sleeps) <= BASE_SLEEP * (Pow(2, maxRetries + 1) - 1)

\* the worst case: max_retries = 2, every attempt rate-limited, the call has given up
C22_Witness ==
    \E t \in Threads :
        /\ maxRetries = 2 /\ th[t].pc = "done" /\ th[t].result = None
        /\ AllRateLimit(th[t].errs)
        /\ SumSeq(th[t].sleeps) = BASE_SLEEP * 7

\* C23: resolution follows the cascade, first success wins: when the primary
\* live source gives nothing or fails, the bundled static file is tried before
\* the seed list (or nothing) is returned, so a resolution that ends at the
\* seed, or empty, had no symbols in the bundled file.  [SpecUniv]
C23_CascadeInOrder ==
    /\ (/\ lastRes.fn = "_auto_universe_fetch"
        /\ lastRes.name \in {"auto:sp500", "auto:asx200"}
        /\ lastRes.source \in {"seed", "seed-on-error"})
       => ~(universeDir.isdir /\ universeDir.files[BaseOf(lastRes.name)] # <<>>)
    /\ (/\ lastRes.fn = "resolve_universe"
        /\ lastRes.name \in KnownNames
        /\ lastRes.source = "fresh"
        /\ lastRes.result = <<>>)
       => bundled[StripAuto(KeyOf(lastRes.name))] = <<>>

\* the local file a name that is not a known auto universe stands for
NamedFile(name) == IF name = "file:tech" THEN "tech" ELSE name

\* C24: for an unknown universe name or a "file:" name resolve_universe makes
\* no live fetch: its result is the fresh on-disk cache entry, or else the
\* normalised rows of the named local file.  [SpecUniv]
C24_NoLiveFetchForFiles ==
    (lastRes.fn = "resolve_universe" /\ lastRes.name \notin KnownNames)
    => /\ ~lastRes.live
       /\ lastRes.source = "cache"
            => lastRes.result = univFiles[PathOf(KeyOf(lastRes.name))].rows
       /\ lastRes.source = "fresh"
            => lastRes.result = Normalise(bundled[NamedFile(lastRes.name)])

\* "file:tech" resolved from the bundled tech list, no cache entry before
C24_Witness ==
    /\ lastRes.fn = "resolve_universe"
    /\ lastRes.name = "file:tech"
    /\ lastRes.source = "fresh"
    /\ lastRes.result = <<"AAPL", "MSFT">>
    /\ ~lastRes.live

\* one screen([tk]) call whose frame has closes and in which no factor raises
Scored == scrOut.called /\ scrBatch = NoBatch /\ scrIn.hist = "data" /\ scrIn.fails = {}

\* C25: with only trend and momentum switched on (min_12m_mom = 0.05), an
\* instrument with 300 days of rising prices (last close above the slow
\* average, 12-1 return above the minimum) is classified BUY, with the trend
\* reason and the momentum reason and a score of at least 1.5.  [SpecScreen]
C25_TrendMomentumIsBuy ==
    (/\ Scored
     /\ signals = SignalsTrendMomentum
     /\ scrIn.series.len = 300 /\ scrIn.series.above /\ scrIn.series.ret12 >= 5)
    => /\ Len(scrOut.records) = 1
       /\ scrOut.records[1].side = "BUY"
       /\ scrOut.records[1].score >= 1500
       /\ {"trend", "momentum"} \subseteq SeqToSet(scrOut.records[1].reasons)

\* the reasons of the record of a scored call
Reasons == SeqToSet(scrOut.records[1].reasons)

\* C26: momentum adds its reason whenever the history has at least 253
\* trading days and the 12-1 return meets the minimum, and abstains below 253
\* days.  [SpecScreen]
C26_MomentumFrom253Days ==
    (Scored /\ signals.momentum.enabled)
    => ("momentum" \in Reasons
          <=> (scrIn.series.len >= 253 /\ scrIn.series.ret12 >= signals.momentum.min_12m_mom))

\* C27 (as stated): the trend reason is added only when the family is enabled
\* and the last close is at or above the slow average; never for a close below
\* it.  [SpecScreen]
C27_TrendOnlyAboveSlowAverage ==
    Scored => ("trend" \in Reasons
                 => (signals.technical_trend.enabled /\ scrIn.series.above))

\* C27 (amended): the trend reason and its weight 0.4 are added exactly when
\* the family is enabled and either require_above_sma200 is off or the slow
\* average exists (sma_slow closes) and the last close is at or above it.
\* [SpecScreen]
C27_TrendWhenRequiredAbove ==
    Scored
    => /\ "trend" \in Reasons
            <=> /\ signals.technical_trend.enabled
                /\ \/ ~signals.technical_trend.require_above_sma200
                   \/ (scrIn.series.len >= signals.technical_trend.sma_slow
                         /\ scrIn.series.above)
       /\ scrOut.records[1].reasons = <<"trend">> => scrOut.records[1].score = 400

\* require_above_sma200 off: the trend reason for a close below the slow average
C27_Witness ==
    /\ Scored
    /\ ~signals.technical_trend.require_above_sma200
    /\ scrIn.series.len = 300 /\ ~scrIn.series.above
    /\ "trend" \in Reasons

\* C28: yield and payout are scored independently: the payout reason is added
\* whenever the payout ratio is present and at or below max_payout, whether or
\* not a dividend yield is available.  [SpecScreen]
C28_PayoutIndependentOfYield ==
    (/\ Scored
     /\ signals.dividend.enabled /\ Truthy(signals.dividend.max_payout)
     /\ ~scrIn.fund.raises
     /\ Truthy(scrIn.fund.facts.payout_ratio)
     /\ scrIn.fund.facts.payout_ratio.v <= signals.dividend.max_payout.v)
    => "payout" \in Reasons

\* the price converted as the base currency asks, with the rate or its fallback
Converted(px, ccy, base, rate) ==
    IF base = ccy THEN px
    ELSE IF ccy = "USD" /\ base = "AUD" THEN (px * 100) \div rate
    ELSE IF ccy = "AUD" /\ base = "USD" THEN (px * rate) \div 100
    ELSE px

\* C29: the record's price is the last close in the base currency: unchanged
\* when the instrument's currency is the base currency, divided by the AUD/USD
\* rate for a USD instrument with base AUD, multiplied by it for an AUD
\* instrument with base USD, the rate being 0.65 when the lookup gives none
\* or fails.  [SpecPx]
C29_PriceInBaseCurrency ==
    (pxOut.called /\ Upper(pxIn.base_currency) \in {"AUD", "USD"})
    => pxOut.px = Converted(pxIn.px, ResolveCcy(pxIn.ticker), Upper(pxIn.base_currency),
                            FxOrFallback(pxIn.fx))

\* C30: a step taken while the queue is Empty (never prepared, no queue file)
\* prepares the queue first instead of reporting done: no step has reported
\* done while the queue was never prepared.  [SpecQueue]
C30_StepOnEmptyPrepares ==
    (qObs.steps > 0 /\ qObs.last = "done") => qObs.prepares > 0

\* the loop thread is about to read the cursor and finds it at the end of the
\* list it loaded, with no request in flight
AtEnd ==
    /\ bgLoop.pc = "load state"
    /\ bgReq.pc = "idle"
    /\ bgLoop.lst = bgFiles.list
    /\ bgFiles.i >= Len(bgLoop.lst)

\* C31: a step taken while the queue is Exhausted reports done and changes
\* nothing: the step of the loop that finds the cursor at the end of the
\* list scores no symbol and leaves list, cursor and signals as they are.
\* [SpecBg]
C31_ExhaustedStepIsNoOp ==
    [][(AtEnd /\ bgLoop' # bgLoop)
          => (bgLoop'.pc # "load signals" /\ bgLoop'.tk = "" /\ bgFiles' = bgFiles)]_vars

\* C35: the loop that finds the cursor at the end of the list does not stop:
\* it sets the cursor to 0 and resolves the list again (_prepare_scan_list)
\* before it screens a symbol of the next pass.  [SpecBg]
C35_ExhaustedIsRePrepared ==
    [][(AtEnd /\ bgLoop' # bgLoop) => bgLoop'.pc = "prepare list"]_vars

C36_CursorAdvancesDespiteRaise ==
    [](  (boot.pc = "looping" /\ bgLoop.pc = "load state")
           => <>(bgObs.last = "step" \/ boot.pc = "exited"))

\* C39: every process start later performs a queue step (its loop screens a
\* symbol), unless the process stops first; also when the marker file of an
\* earlier run with the same process id is still there.  [SpecBootLive]
C39_EveryStartSteps ==
    [](  bgObs.last = "start"
           => <>(bgObs.last = "load state" \/ boot.pc = "exited"))

\* a chunk that is given and is not "start:end" with integers 0 <= start < end
Malformed(chunk) ==
    /\ chunk.given
    /\ ~(/\ Len(chunk.parts) = 2
         /\ chunk.parts[1].kind = "int" /\ chunk.parts[2].kind = "int"
         /\ 0 <= chunk.parts[1].v /\ chunk.parts[1].v < chunk.parts[2].v)

\* C33: a scan request with a malformed chunk is rejected with an error; it
\* never scans the whole un-windowed universe.  [SpecScan]
C33_MalformedChunkRejected ==
    (scan.called /\ Malformed(scan.chunk))
    => (scan.kind = "rejected" /\ scan.screened = <<>>)

\* C34: list, cursor and results of the scan queue are changed only by the
\* queue's own operations: no step of cache_clear changes or deletes them.
\* [SpecClear]
C34_OnlyQueueOpsTouchQueueFiles ==
    [][(bgReq.kind = "clear" /\ bgReq' # bgReq) => bgFiles' = bgFiles]_vars

\* C37: after a fetch has completed its network call without raising (the
\* only way an entry gets into a cache), a later fetch with the same key
\* within the TTL makes no network call, also when the stored result is None:
\* a fetch that finds a live entry never starts a call.  [SpecCache]
C37_CompletedCallIsCached ==
    \A t \in Threads :
        (th[t].seen = "fresh" /\ th[t].seenAge <= Ttl(th[t].kind)) =>
            (th[t].nNet = 0 /\ th[t].pc \notin {"lock", "gate", "call", "net", "backoff"})

\* C38: for an "auto:" name that is neither sp500 nor asx200,
\* _auto_universe_fetch returns the empty list and writes no cache entry
\* under that name: never the constituents of another universe.  [SpecUniv]
C38_UnknownAutoIsEmpty ==
    (/\ lastRes.fn = "_auto_universe_fetch"
     /\ StartsWithAuto(lastRes.name)
     /\ BaseOf(lastRes.name) \notin {"sp500", "asx200"})
    => (lastRes.result = <<>> /\ jsonFiles[lastRes.name] = NoFile)

\* C40: with the names providers/yf.py actually exports, the loader ends
\* with a usable provider (from a factory, a class or the module itself)
\* and does not raise ImportError.  [SpecLoad]
C40_LoaderFindsProvider ==
    (load.called /\ load.mod = YfExports)
    => load.outcome.kind \in {"factory", "class", "module"}

====
